---- MODULE Spec2Model ----
(***************************************************************************)
(* Model of the cost calculation engine (CostCalculationEngine) of the     *)
(* data-provider cost estimator: the formula evaluator, the expression     *)
(* evaluator, the structured formula strategies and the service support    *)
(* checker.                                                                *)
(*                                                                         *)
(* JavaScript strings are sequences of one-character strings.  JavaScript  *)
(* numbers are exact rationals [n, d] (d >= 1, lowest terms) together with *)
(* NaN, +Infinity, -Infinity and -0; rounding of doubles is not modelled.  *)
(***************************************************************************)
EXTENDS Integers, Sequences, FiniteSets, TLC

(***************************************************************************)
(* Characters and strings                                                  *)
(***************************************************************************)
Digits == <<"0", "1", "2", "3", "4", "5", "6", "7", "8", "9">>

DigitSet == {Digits[i] : i \in 1..10}

DigitVal(c) == (CHOOSE i \in 1..10 : Digits[i] = c) - 1

\* the letters of the modelled alphabet
Letters ==
    {"a", "b", "c", "d", "e", "f", "g", "h", "i", "j", "k", "l", "m", "n", "o", "p", "q",
     "r", "s", "t", "u", "v", "w", "x", "y", "z", "I", "N"}

\* \w of a JavaScript regular expression: [A-Za-z0-9_]
IsWordChar(c) == c \in Letters \cup DigitSet \cup {"_"}

\* [a-zA-Z_], the first character of a name in getRequiredVariables
IsNameStart(c) == c \in Letters \cup {"_"}

\* \s of a JavaScript regular expression (one-line strings: the blank)
IsSpace(c) == c = " "

\* s.substring(from - 1) with 1-based from
Drop(s, k) == SubSeq(s, k + 1, Len(s))

Take(s, k) == SubSeq(s, 1, k)

\* s.startsWith(p) at 1-based position i
MatchesAt(s, i, p) ==
    /\ i + Len(p) - 1 <= Len(s)
    /\ SubSeq(s, i, i + Len(p) - 1) = p

\* s.includes(p)
Includes(s, p) == \E i \in 1..(Len(s) + 1) : MatchesAt(s, i, p)

\* const name = value; body: the value is computed once and used under a name
Let(value, Body(_)) == Body(value)

\* s.trim() === ''
IsBlank(s) == \A i \in 1..Len(s) : IsSpace(s[i])

(***************************************************************************)
(* Numbers                                                                 *)
(***************************************************************************)
Abs(x) == IF x < 0 THEN -x ELSE x

RECURSIVE Gcd(_, _)
Gcd(a, b) == IF b = 0 THEN a ELSE Gcd(b, a % b)

NaN == [t |-> "number", n |-> 0, d |-> 0]

PosInf == [t |-> "number", n |-> 1, d |-> 0]

NegInf == [t |-> "number", n |-> -1, d |-> 0]

PosZero == [t |-> "number", n |-> 0, d |-> 1]

NegZero == [t |-> "number", n |-> 0, d |-> -1]

\* the rational n/d (d # 0, n # 0 or d > 0) in lowest terms
Rat(n, d) ==
    LET g == Gcd(Abs(n), Abs(d))
        s == IF d < 0 THEN -1 ELSE 1
    IN  [t |-> "number", n |-> (s * n) \div g, d |-> (s * d) \div g]

Int2Num(k) == [t |-> "number", n |-> k, d |-> 1]

IsNaN(x) == x.d = 0 /\ x.n = 0

IsInf(x) == x.d = 0 /\ x.n # 0

IsZero(x) == x.n = 0 /\ x.d # 0

IsFinite(x) == x.d # 0

\* the sign bit of a number that is not NaN
Sign(x) == IF x.n < 0 \/ x = NegZero THEN -1 ELSE 1

SignedZero(s) == IF s < 0 THEN NegZero ELSE PosZero

SignedInf(s) == IF s < 0 THEN NegInf ELSE PosInf

NumNeg(x) ==
    IF IsNaN(x) THEN NaN
    ELSE IF IsZero(x) THEN SignedZero(-Sign(x))
    ELSE [t |-> "number", n |-> -x.n, d |-> x.d]

NumAdd(x, y) ==
    IF IsNaN(x) \/ IsNaN(y) THEN NaN
    ELSE IF IsInf(x) /\ IsInf(y) THEN (IF x = y THEN x ELSE NaN)
    ELSE IF IsInf(x) THEN x
    ELSE IF IsInf(y) THEN y
    ELSE IF IsZero(x) /\ IsZero(y) THEN (IF x = NegZero /\ y = NegZero THEN NegZero ELSE PosZero)
    ELSE IF IsZero(x) THEN y
    ELSE IF IsZero(y) THEN x
    ELSE LET m == x.n * y.d + y.n * x.d
         IN  IF m = 0 THEN PosZero ELSE Rat(m, x.d * y.d)

NumSub(x, y) == NumAdd(x, NumNeg(y))

NumMul(x, y) ==
    IF IsNaN(x) \/ IsNaN(y) THEN NaN
    ELSE IF (IsZero(x) /\ IsInf(y)) \/ (IsInf(x) /\ IsZero(y)) THEN NaN
    ELSE IF IsInf(x) \/ IsInf(y) THEN SignedInf(Sign(x) * Sign(y))
    ELSE IF IsZero(x) \/ IsZero(y) THEN SignedZero(Sign(x) * Sign(y))
    ELSE Rat(x.n * y.n, x.d * y.d)

NumDiv(x, y) ==
    IF IsNaN(x) \/ IsNaN(y) THEN NaN
    ELSE IF (IsInf(x) /\ IsInf(y)) \/ (IsZero(x) /\ IsZero(y)) THEN NaN
    ELSE IF IsInf(x) \/ IsZero(y) THEN SignedInf(Sign(x) * Sign(y))
    ELSE IF IsInf(y) \/ IsZero(x) THEN SignedZero(Sign(x) * Sign(y))
    ELSE Rat(x.n * y.d, x.d * y.n)

\* x < y for numbers (false when either is NaN)
NumLess(x, y) ==
    IF IsNaN(x) \/ IsNaN(y) THEN FALSE
    ELSE IF IsInf(x) THEN x = NegInf /\ y # NegInf
    ELSE IF IsInf(y) THEN y = PosInf
    ELSE x.n * Abs(y.d) < y.n * Abs(x.d)

\* x == y for numbers (-0 equals 0, NaN equals nothing)
NumEq(x, y) ==
    IF IsNaN(x) \/ IsNaN(y) THEN FALSE
    ELSE IF IsZero(x) /\ IsZero(y) THEN TRUE
    ELSE x = y

NumLeq(x, y) == NumLess(x, y) \/ NumEq(x, y)

One == Int2Num(1)

RECURSIVE PowInt(_, _)
\* x multiplied by itself k times (k >= 1)
PowInt(x, k) == IF k = 1 THEN x ELSE NumMul(x, PowInt(x, k - 1))

\* Math.pow(x, y) and x ** y.  Finite exponents that are not integers are
\* covered for the bases where the result is exact; there is no case for the
\* other bases.
NumPow(x, y) ==
    CASE IsNaN(y) -> NaN
      [] IsZero(y) -> One
      [] ~IsNaN(y) /\ ~IsZero(y) /\ IsNaN(x) -> NaN
      [] IsInf(y) /\ ~IsNaN(x) ->
            LET a == IF IsInf(x) THEN PosInf ELSE [x EXCEPT !.n = Abs(x.n), !.d = Abs(x.d)]
            IN  IF NumEq(a, One) THEN NaN
                ELSE IF NumLess(One, a) = (y = PosInf) THEN PosInf ELSE PosZero
      [] IsFinite(y) /\ ~IsZero(y) /\ y.d = 1 /\ ~IsNaN(x) ->
            IF y.n > 0 THEN PowInt(x, y.n) ELSE NumDiv(One, PowInt(x, -y.n))
      [] IsFinite(y) /\ ~IsZero(y) /\ y.d > 1 /\ x = One -> One
      [] IsFinite(y) /\ ~IsZero(y) /\ y.d > 1 /\ IsZero(x) ->
            IF y.n > 0 THEN PosZero ELSE PosInf
      [] IsFinite(y) /\ ~IsZero(y) /\ y.d > 1 /\ IsInf(x) ->
            IF y.n > 0 THEN PosInf ELSE PosZero
      [] IsFinite(y) /\ ~IsZero(y) /\ y.d > 1 /\ IsFinite(x) /\ x.n < 0 -> NaN

(***************************************************************************)
(* JavaScript values: numbers (above), strings, null and undefined.  The   *)
(* value NonNum stands for the regular-expression objects of the dynamic   *)
(* evaluator and the strings made from them: ToNumber of either is NaN.    *)
(***************************************************************************)
Str(s) == [t |-> "string", s |-> s]

Null == [t |-> "null"]

Undefined == [t |-> "undefined"]

NonNum == [t |-> "nonnumeric"]

IsNumber(v) == v.t = "number"

IsString(v) == v.t = "string"

RECURSIVE NatToString(_)
\* the decimal digits of a natural number
NatToString(k) ==
    IF k < 10 THEN <<Digits[k + 1]>>
    ELSE NatToString(k \div 10) \o <<Digits[(k % 10) + 1]>>

RECURSIVE OnlyTwosAndFives(_)
\* d divides a power of ten: n/d has a finite decimal expansion
OnlyTwosAndFives(d) ==
    IF d = 1 THEN TRUE
    ELSE IF d % 2 = 0 THEN OnlyTwosAndFives(d \div 2)
    ELSE IF d % 5 = 0 THEN OnlyTwosAndFives(d \div 5)
    ELSE FALSE

RECURSIVE FracDigits(_, _)
\* the digits after the decimal point of r/d (0 <= r < d, d divides a power of ten)
FracDigits(r, d) ==
    IF r = 0 THEN <<>>
    ELSE <<Digits[((r * 10) \div d) + 1]>> \o FracDigits((r * 10) % d, d)

\* String(x) for a number.  There is no case for a finite number whose decimal
\* expansion does not end (JavaScript prints 17 significant digits of the double).
NumToString(x) ==
    CASE IsNaN(x) -> <<"N", "a", "N">>
      [] x = PosInf -> <<"I", "n", "f", "i", "n", "i", "t", "y">>
      [] x = NegInf -> <<"-", "I", "n", "f", "i", "n", "i", "t", "y">>
      [] IsZero(x) -> <<"0">>
      [] IsFinite(x) /\ ~IsZero(x) /\ OnlyTwosAndFives(x.d) ->
            LET m == Abs(x.n)
                whole == NatToString(m \div x.d)
                frac == FracDigits(m % x.d, x.d)
            IN  (IF x.n < 0 THEN <<"-">> ELSE <<>>)
                  \o whole \o (IF frac = <<>> THEN <<>> ELSE <<".">> \o frac)

\* String(v), the replacement text of String.prototype.replace(regex, v).  The
\* modelled string values hold no "$", which replace() would read as a pattern.
ToStr(v) ==
    CASE IsNumber(v) -> NumToString(v)
      [] IsString(v) -> v.s
      [] v = Null -> <<"n", "u", "l", "l">>
      [] v = Undefined -> <<"u", "n", "d", "e", "f", "i", "n", "e", "d">>

\* ToNumber(v).  A modelled string value is the empty string or holds a
\* character that no numeric literal holds.
ToNumber(v) ==
    CASE IsNumber(v) -> v
      [] v = Null -> PosZero
      [] v = Undefined -> NaN
      [] v = NonNum -> NaN
      [] IsString(v) /\ IsBlank(v.s) -> PosZero
      [] IsString(v) /\ \E i \in 1..Len(v.s) : v.s[i] \notin DigitSet \cup {".", " ", "-", "+"} -> NaN

\* ToBoolean(v)
Truthy(v) ==
    CASE IsNumber(v) -> ~(IsNaN(v) \/ IsZero(v))
      [] IsString(v) -> v.s # <<>>
      [] v = Null -> FALSE
      [] v = Undefined -> FALSE
      [] OTHER -> TRUE

\* v || w
OrElse(v, w) == IF Truthy(v) THEN v ELSE w

\* isNaN(v)
JsIsNaN(v) == IsNaN(ToNumber(v))

(***************************************************************************)
(* Objects used as contexts: sequences of [k, v] entries with distinct     *)
(* keys, in insertion order (the order of Object.entries).                 *)
(***************************************************************************)
HasKey(obj, key) == \E i \in 1..Len(obj) : obj[i].k = key

\* obj[key]
Get(obj, key) ==
    IF HasKey(obj, key)
    THEN obj[CHOOSE i \in 1..Len(obj) : obj[i].k = key].v
    ELSE Undefined

Keys(obj) == {obj[i].k : i \in 1..Len(obj)}

RECURSIVE Assign(_, _)
\* { ...a, ...b }: the entries of b overwrite in place or are appended
Assign(a, b) ==
    IF b = <<>> THEN a
    ELSE LET e == Head(b)
             a1 == IF HasKey(a, e.k)
                   THEN [i \in 1..Len(a) |-> IF a[i].k = e.k THEN e ELSE a[i]]
                   ELSE Append(a, e)
         IN  Assign(a1, Tail(b))

(***************************************************************************)
(* evaluateExpression, step 1: substitution of the variables               *)
(***************************************************************************)
\* \b between s[j] and s[j + 1]
WordBoundary(s, j) ==
    (j >= 1 /\ j <= Len(s) /\ IsWordChar(s[j])) # (j + 1 <= Len(s) /\ IsWordChar(s[j + 1]))

\* a variant of the match without the word boundary after the name
VarMatchesAtPrefix(s, i, name) == MatchesAt(s, i, <<"$">> \o name)

\* the regular expression \$name\b matches s at position i
VarMatchesAt(s, i, name) ==
    /\ MatchesAt(s, i, <<"$">> \o name)
    /\ WordBoundary(s, i + Len(name))

RECURSIVE ReplaceFrom(_, _, _, _)
\* s.replace(new RegExp("\\$" + name + "\\b", "g"), rep), from position i on
ReplaceFrom(s, i, name, rep) ==
    IF i > Len(s) THEN <<>>
    ELSE IF VarMatchesAt(s, i, name)
         THEN rep \o ReplaceFrom(s, i + Len(name) + 1, name, rep)
         ELSE <<s[i]>> \o ReplaceFrom(s, i + 1, name, rep)

ReplaceVar(s, name, rep) == ReplaceFrom(s, 1, name, rep)

RECURSIVE SubstituteContext(_, _)
\* the loop over Object.entries(context): one global replace per entry whose
\* value is neither undefined nor null
SubstituteContext(s, context) ==
    IF context = <<>> THEN s
    ELSE LET e == Head(context)
             s1 == IF e.v # Undefined /\ e.v # Null
                   THEN ReplaceVar(s, e.k, ToStr(e.v))
                   ELSE s
         IN  SubstituteContext(s1, Tail(context))

RECURSIVE WordRun(_, _)
\* the number of word characters of s from position i on
WordRun(s, i) ==
    IF i <= Len(s) /\ IsWordChar(s[i]) THEN 1 + WordRun(s, i + 1) ELSE 0

RECURSIVE UnreplacedFrom(_, _)
\* s.match(/\$\w+/g) from position i on: the names, without the sigil
UnreplacedFrom(s, i) ==
    IF i > Len(s) THEN <<>>
    ELSE IF s[i] = "$" /\ WordRun(s, i + 1) > 0
         THEN <<SubSeq(s, i + 1, i + WordRun(s, i + 1))>>
                \o UnreplacedFrom(s, i + 1 + WordRun(s, i + 1))
         ELSE UnreplacedFrom(s, i + 1)

UnreplacedVars(s) == UnreplacedFrom(s, 1)

\* a variant that leaves the unreplaced references in the text
ZeroUnreplacedLeavesText(s, names) == s

RECURSIVE ZeroUnreplaced(_, _)
\* the loop over unreplacedVars: each is replaced by '0'
ZeroUnreplaced(s, names) ==
    IF names = <<>> THEN s
    ELSE ZeroUnreplaced(ReplaceVar(s, Head(names), <<"0">>), Tail(names))

\* processedExpression
ProcessedExpression(expression, context) ==
    Let(SubstituteContext(expression, context),
        LAMBDA s : ZeroUnreplaced(s, UnreplacedVars(s)))

(***************************************************************************)
(* evaluateExpression, step 2: the safety filter                           *)
(***************************************************************************)
\* [0-9+\-*/().\s]
IsMathChar(c) == c \in DigitSet \cup {"+", "-", "*", "/", "(", ")", "."} \/ IsSpace(c)

\* a variant of the filter that lets word characters and ; through
SanitizeKeepsWords(s) ==
    SelectSeq(s, LAMBDA c : IsMathChar(c) \/ IsWordChar(c) \/ c = ";")

\* s.replace(/[^0-9+\-*/().\s]/g, '')
Sanitize(s) == SelectSeq(s, IsMathChar)

\* safeExpression
SafeExpression(expression, context) == Sanitize(ProcessedExpression(expression, context))

(***************************************************************************)
(* evaluateExpression, step 3: Function('"use strict"; return (' + s + ')')*)
(* on a string s of the characters that pass the filter.  The tokens such  *)
(* a text can hold are decimal literals, regular-expression literals,      *)
(* ( ) + - * / ** ++ -- . ... and comments.  A text with ++, --, . or ...  *)
(* either does not parse or throws when run, so the lexer reports them as  *)
(* errors.                                                                 *)
(***************************************************************************)
RECURSIVE DigitRun(_, _)
\* the number of digits of s from position i on
DigitRun(s, i) ==
    IF i <= Len(s) /\ s[i] \in DigitSet THEN 1 + DigitRun(s, i + 1) ELSE 0

RECURSIVE DigitsValue(_, _, _)
\* the value of the k digits of s from position i on
DigitsValue(s, i, k) ==
    IF k = 0 THEN 0 ELSE DigitsValue(s, i, k - 1) * 10 + DigitVal(s[i + k - 1])

RECURSIVE TenTo(_)
TenTo(k) == IF k = 0 THEN 1 ELSE 10 * TenTo(k - 1)

\* the body of a regular-expression literal is a valid pattern: the groups are
\* balanced and every quantifier follows an atom
ValidPattern(body) ==
    LET Depth(j) == Cardinality({q \in 1..j : body[q] = "("})
                      - Cardinality({q \in 1..j : body[q] = ")"})
    IN  /\ \A j \in 1..Len(body) : Depth(j) >= 0
        /\ Depth(Len(body)) = 0
        /\ \A j \in 1..Len(body) :
              body[j] \in {"*", "+"} => (j > 1 /\ body[j - 1] \notin {"(", "*", "+"})

Token(k, v) == [k |-> k, v |-> v]

LexError == [err |-> TRUE, toks |-> <<>>]

RECURSIVE Lex(_, _, _)
\* the tokens of s from position i on; afterOperand tells whether the previous
\* token ends an operand, which makes a following / a division
Lex(s, i, afterOperand) ==
    IF i > Len(s) THEN [err |-> FALSE, toks |-> <<>>]
    ELSE LET c == s[i]
             next == IF i < Len(s) THEN s[i + 1] ELSE "eof"
             Cons(tok, j, operand) ==
                 LET rest == Lex(s, j, operand)
                 IN  IF rest.err THEN LexError
                     ELSE [err |-> FALSE, toks |-> <<tok>> \o rest.toks]
         IN  CASE IsSpace(c) -> Lex(s, i + 1, afterOperand)
               [] c \in DigitSet ->
                     LET run == DigitRun(s, i)
                         dot == i + run <= Len(s) /\ s[i + run] = "."
                         frun == IF dot THEN DigitRun(s, i + run + 1) ELSE 0
                         j == i + run + (IF dot THEN 1 + frun ELSE 0)
                         whole == DigitsValue(s, i, run)
                         frac == DigitsValue(s, i + run + 1, frun)
                     IN  \* strict mode: no literal 00, 01, 08, ...
                         IF run > 1 /\ c = "0" THEN LexError
                         ELSE Cons(Token("num", Rat(whole * TenTo(frun) + frac, TenTo(frun))),
                                   j, TRUE)
               [] c = "." ->
                     IF next \in DigitSet
                     THEN LET frun == DigitRun(s, i + 1)
                          IN  Cons(Token("num", Rat(DigitsValue(s, i + 1, frun), TenTo(frun))),
                                   i + 1 + frun, TRUE)
                     ELSE LexError
               [] c \in {"+", "-"} ->
                     IF next = c THEN LexError ELSE Cons(Token(c, NaN), i + 1, FALSE)
               [] c = "*" ->
                     IF next = "*" THEN Cons(Token("**", NaN), i + 2, FALSE)
                     ELSE Cons(Token("*", NaN), i + 1, FALSE)
               [] c = "(" -> Cons(Token("(", NaN), i + 1, FALSE)
               [] c = ")" -> Cons(Token(")", NaN), i + 1, TRUE)
               [] c = "/" /\ next = "/" ->
                     \* a comment to the end of the line
                     [err |-> FALSE, toks |-> <<>>]
               [] c = "/" /\ next = "*" ->
                     LET ends == {j \in (i + 2)..(Len(s) - 1) : s[j] = "*" /\ s[j + 1] = "/"}
                     IN  IF ends = {} THEN LexError
                         ELSE Lex(s, (CHOOSE j \in ends : \A q \in ends : j <= q) + 2, afterOperand)
               [] c = "/" /\ next \notin {"/", "*"} /\ afterOperand ->
                     Cons(Token("/", NaN), i + 1, FALSE)
               [] c = "/" /\ next \notin {"/", "*"} /\ ~afterOperand ->
                     LET ends == {j \in (i + 1)..Len(s) : s[j] = "/"}
                         close == CHOOSE j \in ends : \A q \in ends : j <= q
                     IN  IF ends = {} THEN LexError
                         \* a digit after the literal is read as a flag
                         ELSE IF close < Len(s) /\ s[close + 1] \in DigitSet THEN LexError
                         ELSE IF ~ValidPattern(SubSeq(s, i + 1, close - 1)) THEN LexError
                         ELSE Cons(Token("re", NaN), close + 1, TRUE)
               \* no other character passes the filter; in a text of JavaScript it
               \* is, or starts, a token that does not evaluate to a number here
               [] OTHER -> LexError

Kind(ts, i) == IF i <= Len(ts) THEN ts[i].k ELSE "eof"

ParseError == [e |-> TRUE, v |-> NaN, i |-> 0]

Parsed(v, i) == [e |-> FALSE, v |-> v, i |-> i]

\* a + b
JsPlus(a, b) ==
    IF a = NonNum \/ b = NonNum THEN NonNum
    ELSE IF IsString(a) \/ IsString(b) THEN Str(ToStr(a) \o ToStr(b))
    ELSE NumAdd(ToNumber(a), ToNumber(b))

RECURSIVE ParseAdditive(_, _)
RECURSIVE AdditiveLoop(_, _)
RECURSIVE ParseMultiplicative(_, _)
RECURSIVE MultiplicativeLoop(_, _)
RECURSIVE ParseExponentiation(_, _)
RECURSIVE ParseUnary(_, _)
RECURSIVE ParseCall(_, _)
RECURSIVE ParsePrimary(_, _)

\* NumericLiteral, RegularExpressionLiteral or ( Expression )
ParsePrimary(ts, i) ==
    CASE Kind(ts, i) = "num" -> Parsed(ts[i].v, i + 1)
      [] Kind(ts, i) = "re" -> Parsed(NonNum, i + 1)
      [] Kind(ts, i) = "(" ->
            Let(ParseAdditive(ts, i + 1),
                LAMBDA r : IF r.e \/ Kind(ts, r.i) # ")" THEN ParseError
                           ELSE Parsed(r.v, r.i + 1))
      [] OTHER -> ParseError

\* a primary followed by ( is a call of a value that is no function: it throws
ParseCall(ts, i) ==
    Let(ParsePrimary(ts, i),
        LAMBDA p : IF p.e \/ Kind(ts, p.i) = "(" THEN ParseError ELSE p)

ParseUnary(ts, i) ==
    IF Kind(ts, i) \in {"+", "-"}
    THEN Let(ParseUnary(ts, i + 1),
             LAMBDA u : IF u.e THEN ParseError
                        ELSE IF Kind(ts, i) = "-" THEN Parsed(NumNeg(ToNumber(u.v)), u.i)
                        ELSE Parsed(ToNumber(u.v), u.i))
    ELSE ParseCall(ts, i)

\* UnaryExpression, or UpdateExpression ** ExponentiationExpression
ParseExponentiation(ts, i) ==
    IF Kind(ts, i) \in {"+", "-"}
    THEN Let(ParseUnary(ts, i),
             LAMBDA u : IF u.e \/ Kind(ts, u.i) = "**" THEN ParseError ELSE u)
    ELSE Let(ParseCall(ts, i),
             LAMBDA b :
                 IF b.e THEN ParseError
                 ELSE IF Kind(ts, b.i) = "**"
                      THEN Let(ParseExponentiation(ts, b.i + 1),
                               LAMBDA r :
                                   IF r.e THEN ParseError
                                   ELSE Parsed(NumPow(ToNumber(b.v), ToNumber(r.v)), r.i))
                      ELSE b)

MultiplicativeLoop(ts, l) ==
    IF l.e THEN ParseError
    ELSE IF Kind(ts, l.i) \in {"*", "/"}
         THEN Let(ParseExponentiation(ts, l.i + 1),
                  LAMBDA r :
                      IF r.e THEN ParseError
                      ELSE MultiplicativeLoop(ts,
                               Parsed(IF Kind(ts, l.i) = "*"
                                      THEN NumMul(ToNumber(l.v), ToNumber(r.v))
                                      ELSE NumDiv(ToNumber(l.v), ToNumber(r.v)),
                                      r.i)))
         ELSE l

ParseMultiplicative(ts, i) == MultiplicativeLoop(ts, ParseExponentiation(ts, i))

AdditiveLoop(ts, l) ==
    IF l.e THEN ParseError
    ELSE IF Kind(ts, l.i) \in {"+", "-"}
         THEN Let(ParseMultiplicative(ts, l.i + 1),
                  LAMBDA r :
                      IF r.e THEN ParseError
                      ELSE AdditiveLoop(ts,
                               Parsed(IF Kind(ts, l.i) = "+"
                                      THEN JsPlus(l.v, r.v)
                                      ELSE NumSub(ToNumber(l.v), ToNumber(r.v)),
                                      r.i)))
         ELSE l

ParseAdditive(ts, i) == AdditiveLoop(ts, ParseMultiplicative(ts, i))

Thrown == [t |-> "throw"]

\* Function('"use strict"; return (' + s + ')')(): the value, or Thrown for a
\* SyntaxError or a TypeError
RunFunction(s) ==
    Let(Lex(<<"(">> \o s \o <<")">>, 1, FALSE),
        LAMBDA lx :
            IF lx.err THEN Thrown
            ELSE Let(ParseAdditive(lx.toks, 1),
                     LAMBDA r : IF r.e \/ r.i # Len(lx.toks) + 1 THEN Thrown ELSE r.v))

\* evaluateExpression(expression, context); a value that is no string has no
\* replace method, which throws before the try block
evaluateExpression(expression, context) ==
    IF ~IsString(expression) THEN Thrown
    ELSE Let(SafeExpression(expression.s, context),
             LAMBDA safe :
                 IF IsBlank(safe) THEN PosZero
                 ELSE Let(RunFunction(safe),
                          LAMBDA result : IF result = Thrown THEN PosZero
                                          ELSE IF JsIsNaN(result) THEN PosZero
                                          ELSE result))

(***************************************************************************)
(* Comparisons of JavaScript values                                        *)
(***************************************************************************)
\* a < b; there is no case for two strings, which JavaScript compares by
\* code units
JsLess(a, b) ==
    CASE ~(IsString(a) /\ IsString(b)) -> NumLess(ToNumber(a), ToNumber(b))

\* a <= b
JsLeq(a, b) ==
    CASE ~(IsString(a) /\ IsString(b)) -> NumLeq(ToNumber(a), ToNumber(b))

\* a == b
JsLooseEq(a, b) ==
    CASE IsString(a) /\ IsString(b) -> a.s = b.s
      [] a \in {Null, Undefined} \/ b \in {Null, Undefined} ->
            a \in {Null, Undefined} /\ b \in {Null, Undefined}
      [] OTHER -> NumEq(ToNumber(a), ToNumber(b))

\* a === b
JsStrictEq(a, b) ==
    IF IsNumber(a) /\ IsNumber(b) THEN NumEq(a, b) ELSE a = b

\* Math.min(a, b)
MathMin(a, b) ==
    LET x == ToNumber(a)
        y == ToNumber(b)
    IN  IF IsNaN(x) \/ IsNaN(y) THEN NaN
        ELSE IF NumLess(x, y) THEN x
        ELSE IF NumLess(y, x) THEN y
        ELSE IF x = NegZero THEN x ELSE y

(***************************************************************************)
(* Formulas.  A formula is a number, a string Str(s), Null, Undefined or   *)
(* an object [t |-> "object", type |-> ...]:                               *)
(*   type "tiered":      volumeVar, tiers <<[limit, rate]>>                *)
(*   type "multiplier":  base, multipliers <<[variable, factor]>>          *)
(*   type "conditional": conditions <<[if, then]>>, else                   *)
(*   type "none":        values (Object.values of an object with no type)  *)
(* A field the configuration leaves out holds Undefined.                   *)
(***************************************************************************)
IsObject(v) == v.t = "object"

RECURSIVE evaluateFormula(_, _)
RECURSIVE evaluateComplexFormula(_, _)
RECURSIVE evaluateConditionalFormula(_, _)
RECURSIVE SumValues(_, _, _)
RECURSIVE ConditionLoop(_, _)

RECURSIVE TierLoopStopsAtUnlimited(_, _, _, _)
\* a variant of the tier loop that charges nothing in a tier without a limit
TierLoopStopsAtUnlimited(tiers, cost, remainingVolume, context) ==
    IF tiers = <<>> THEN cost
    ELSE IF JsLeq(remainingVolume, PosZero) THEN cost
    ELSE LET tier == Head(tiers)
             tierVolume == MathMin(remainingVolume, OrElse(tier.limit, PosZero))
             rate == IF IsString(tier.rate) THEN evaluateExpression(tier.rate, context)
                     ELSE tier.rate
         IN  TierLoopStopsAtUnlimited(Tail(tiers),
                      JsPlus(cost, NumMul(tierVolume, ToNumber(rate))),
                      NumSub(ToNumber(remainingVolume), tierVolume),
                      context)

RECURSIVE TierLoopOverwritesCost(_, _, _, _)
\* a variant of the tier loop that keeps the cost of the last tier only
TierLoopOverwritesCost(tiers, cost, remainingVolume, context) ==
    IF tiers = <<>> THEN cost
    ELSE IF JsLeq(remainingVolume, PosZero) THEN cost
    ELSE LET tier == Head(tiers)
             tierVolume == MathMin(remainingVolume, OrElse(tier.limit, remainingVolume))
             rate == IF IsString(tier.rate) THEN evaluateExpression(tier.rate, context)
                     ELSE tier.rate
         IN  TierLoopOverwritesCost(Tail(tiers),
                      NumMul(tierVolume, ToNumber(rate)),
                      NumSub(ToNumber(remainingVolume), tierVolume),
                      context)

RECURSIVE TierLoop(_, _, _, _)
\* the loop of evaluateTieredFormula over the tiers that are left
TierLoop(tiers, cost, remainingVolume, context) ==
    IF tiers = <<>> THEN cost
    ELSE IF JsLeq(remainingVolume, PosZero) THEN cost
    ELSE LET tier == Head(tiers)
             tierVolume == MathMin(remainingVolume, OrElse(tier.limit, remainingVolume))
             rate == IF IsString(tier.rate) THEN evaluateExpression(tier.rate, context)
                     ELSE tier.rate
         IN  TierLoop(Tail(tiers),
                      JsPlus(cost, NumMul(tierVolume, ToNumber(rate))),
                      NumSub(ToNumber(remainingVolume), tierVolume),
                      context)

evaluateTieredFormula(formula, context) ==
    LET volume == OrElse(Get(context, formula.volumeVar), PosZero)
    IN  TierLoop(formula.tiers, PosZero, volume, context)

RECURSIVE MultiplierLoopFullPower(_, _, _)
\* a variant of the multiplier loop that raises the factor to the value itself
MultiplierLoopFullPower(multipliers, multiplier, context) ==
    IF multipliers = <<>> THEN multiplier
    ELSE LET mult == Head(multipliers)
             factor == OrElse(Get(context, mult.variable), One)
             m1 == IF JsLess(One, factor)
                   THEN NumMul(multiplier, NumPow(ToNumber(mult.factor), ToNumber(factor)))
                   ELSE multiplier
         IN  MultiplierLoopFullPower(Tail(multipliers), m1, context)

RECURSIVE MultiplierLoop(_, _, _)
\* the loop of evaluateMultiplierFormula over the entries that are left
MultiplierLoop(multipliers, multiplier, context) ==
    IF multipliers = <<>> THEN multiplier
    ELSE LET mult == Head(multipliers)
             factor == OrElse(Get(context, mult.variable), One)
             m1 == IF JsLess(One, factor)
                   THEN NumMul(multiplier,
                               NumPow(ToNumber(mult.factor), NumSub(ToNumber(factor), One)))
                   ELSE multiplier
         IN  MultiplierLoop(Tail(multipliers), m1, context)

evaluateMultiplierFormula(formula, context) ==
    Let(evaluateExpression(formula.base, context),
        LAMBDA baseValue :
            IF baseValue = Thrown THEN Thrown
            ELSE Let(NumMul(baseValue, MultiplierLoop(formula.multipliers, One, context)),
                     LAMBDA result : IF IsNaN(result) THEN PosZero ELSE result))

evaluateCondition(condition, context) ==
    LET varValue == OrElse(Get(context, condition.variable), PosZero)
        value == condition.value
    IN  CASE condition.operator = ">" -> JsLess(value, varValue)
          [] condition.operator = ">=" -> JsLeq(value, varValue)
          [] condition.operator = "<" -> JsLess(varValue, value)
          [] condition.operator = "<=" -> JsLeq(varValue, value)
          [] condition.operator = "==" -> JsLooseEq(varValue, value)
          [] condition.operator = "!=" -> ~JsLooseEq(varValue, value)
          [] OTHER -> FALSE

\* the 'then' and 'else' clauses: a string goes to evaluateExpression
EvaluateClause(clause, context) ==
    IF IsString(clause) THEN evaluateExpression(clause, context)
    ELSE evaluateFormula(clause, context)

RECURSIVE ConditionLoopLastMatch(_, _)
\* a variant of the condition loop in which the last satisfied condition wins
ConditionLoopLastMatch(conditions, context) ==
    IF conditions = <<>> THEN [matched |-> FALSE, v |-> PosZero]
    ELSE LET rest == ConditionLoopLastMatch(Tail(conditions), context)
         IN  IF rest.matched THEN rest
             ELSE IF evaluateCondition(Head(conditions).if, context)
                  THEN [matched |-> TRUE, v |-> EvaluateClause(Head(conditions).then, context)]
                  ELSE rest

ConditionLoop(conditions, context) ==
    IF conditions = <<>> THEN [matched |-> FALSE, v |-> PosZero]
    ELSE IF evaluateCondition(Head(conditions).if, context)
         THEN [matched |-> TRUE, v |-> EvaluateClause(Head(conditions).then, context)]
         ELSE ConditionLoop(Tail(conditions), context)

evaluateConditionalFormula(formula, context) ==
    Let(ConditionLoop(formula.conditions, context),
        LAMBDA m : IF m.matched THEN m.v
                   ELSE EvaluateClause(OrElse(formula.else, PosZero), context))

\* the default of evaluateComplexFormula: the sum of the object's values
SumValues(values, total, context) ==
    IF values = <<>> THEN total
    ELSE LET value == Head(values)
             term == IF IsNumber(value) THEN value ELSE evaluateFormula(value, context)
         IN  IF term = Thrown THEN Thrown
             ELSE SumValues(Tail(values), JsPlus(total, term), context)

evaluateComplexFormula(formula, context) ==
    CASE formula.type = "tiered" -> evaluateTieredFormula(formula, context)
      [] formula.type = "multiplier" -> evaluateMultiplierFormula(formula, context)
      [] formula.type = "conditional" -> evaluateConditionalFormula(formula, context)
      [] OTHER -> SumValues(formula.values, PosZero, context)

\* a variant of evaluateFormula that looks the reference up with its sigil
evaluateFormulaKeepsSigil(formula, context) ==
    IF IsNumber(formula) THEN formula
    ELSE IF IsString(formula)
         THEN IF Len(formula.s) > 0 /\ formula.s[1] = "$"
              THEN OrElse(Get(context, formula.s), PosZero)
              ELSE evaluateExpression(formula, context)
    ELSE IF IsObject(formula) THEN evaluateComplexFormula(formula, context)
    ELSE PosZero

evaluateFormula(formula, context) ==
    IF IsNumber(formula) THEN formula
    ELSE IF IsString(formula)
         THEN IF Len(formula.s) > 0 /\ formula.s[1] = "$"
              THEN OrElse(Get(context, Drop(formula.s, 1)), PosZero)
              ELSE evaluateExpression(formula, context)
    ELSE IF IsObject(formula) THEN evaluateComplexFormula(formula, context)
    ELSE PosZero

(***************************************************************************)
(* State.  formulas, variables, systems and currentSystemCosts are the     *)
(* engine's fields of these names (variables is a Map: entries in          *)
(* insertion order).  call is the call being made on the engine (the       *)
(* operation and its arguments), ret what it returned, safeExpression the  *)
(* text that the evaluateExpression call handed to Function.               *)
(* The other variables are the page the application runs in:               *)
(* isInitialized and currentService are the application's fields,          *)
(* selectedSystems the UI controller's, inputs the .variable-input         *)
(* elements of the document with their values, updatedResults what         *)
(* updateResults was last given and comparisonChart the datasets of the    *)
(* comparison chart.  The text an export writes is the ret of the export.  *)
(***************************************************************************)
VARIABLES formulas, variables, systems, currentSystemCosts, call, ret, safeExpression,
          isInitialized, currentService, selectedSystems, inputs, updatedResults,
          comparisonChart

vars ==
    <<formulas, variables, systems, currentSystemCosts, call, ret, safeExpression,
      isInitialized, currentService, selectedSystems, inputs, updatedResults,
      comparisonChart>>

\* the page
page ==
    <<isInitialized, currentService, selectedSystems, inputs, updatedResults,
      comparisonChart>>

\* the engine's fields
engine == <<formulas, variables, systems, currentSystemCosts>>

\* a plain object held as a value: its entries in insertion order
Dict(entries) == [t |-> "dict", entries |-> entries]

IsDict(v) == v.t = "dict"

\* no page: the engine is used on its own
NoPage ==
    /\ isInitialized = FALSE
    /\ currentService = "transport"
    /\ selectedSystems = <<>>
    /\ inputs = <<>>
    /\ updatedResults = Undefined
    /\ comparisonChart = Undefined

\* no value yet
Pending == [t |-> "pending"]

\* nothing was handed to Function
NoCode == <<"none">>

(***************************************************************************)
(* Inputs of the expression evaluator: every text of at most MaxPieces     *)
(* pieces, and every context over the keys a and ab in either order.       *)
(***************************************************************************)
MaxPieces == 3

Pieces ==
    << <<"$", "a">>, <<"$", "a", "b">>, <<"b", ";">>, <<"2">>, <<" ">>,
       <<"+">>, <<"-">>, <<"*">>, <<"/">>, <<"(">>, <<")">> >>

RECURSIVE Concat(_)
Concat(ps) == IF ps = <<>> THEN <<>> ELSE Pieces[Head(ps)] \o Concat(Tail(ps))

Expressions ==
    {Concat(ps) : ps \in UNION {[1..k -> 1..Len(Pieces)] : k \in 0..MaxPieces}}

KeyA == <<"a">>

KeyAB == <<"a", "b">>

ContextValues == {Int2Num(0), Int2Num(2), Str(<<"x", "(", ")">>), Null, Undefined}

Entry(k, v) == [k |-> k, v |-> v]

Contexts ==
    {<<>>}
      \cup {<<Entry(k, v)>> : k \in {KeyA, KeyAB}, v \in ContextValues}
      \cup {<<Entry(KeyA, v), Entry(KeyAB, w)>> : v \in ContextValues, w \in ContextValues}
      \cup {<<Entry(KeyAB, w), Entry(KeyA, v)>> : v \in ContextValues, w \in ContextValues}

ExpressionCall(op, expression, context) ==
    [op |-> op, formula |-> Str(expression), context |-> context]

InitExpression ==
    /\ \E op \in {"evaluateExpression", "evaluateFormula"}, e \in Expressions, c \in Contexts :
           call = ExpressionCall(op, e, c)
    /\ ret = Pending
    /\ safeExpression = NoCode
    /\ formulas = <<>>
    /\ variables = <<>>
    /\ systems = <<>>
    /\ currentSystemCosts = Dict(<<>>)
    /\ NoPage

\* evaluateExpression(call.formula, call.context) runs
EvaluateExpression ==
    /\ call.op = "evaluateExpression"
    /\ ret = Pending
    /\ ret' = evaluateExpression(call.formula, call.context)
    /\ safeExpression' =
          LET s == SafeExpression(call.formula.s, call.context)
          IN  IF IsBlank(s) THEN NoCode ELSE s
    /\ UNCHANGED <<page, call, engine>>

\* evaluateFormula(call.formula, call.context) runs
EvaluateFormula ==
    /\ call.op = "evaluateFormula"
    /\ ret = Pending
    /\ ret' = evaluateFormula(call.formula, call.context)
    /\ UNCHANGED <<page, call, safeExpression, engine>>

NextExpression == EvaluateExpression \/ EvaluateFormula

SpecExpression == InitExpression /\ [][NextExpression]_vars

(***************************************************************************)
(* Inputs of the structured formulas.                                      *)
(*   tiered:      at most MaxTiers tiers, limits 1..MaxLimit or none,      *)
(*                volumes 0..MaxVolume or no volume variable               *)
(*   multiplier:  at most two entries, levels 0..MaxLevel or no variable   *)
(*   conditional: at most MaxConditions conditions on x in 0..MaxX or no x *)
(***************************************************************************)
MaxTiers == 3

MaxLimit == 2

MaxVolume == 5

MaxLevel == 3

MaxConditions == 2

MaxX == 3

SeqsUpTo(S, k) == UNION {[1..j -> S] : j \in 0..k}

KeyV == <<"v">>

KeyR == <<"r">>

KeyP == <<"p">>

KeyM == <<"m">>

KeyN == <<"n">>

KeyX == <<"x">>

\* the rate "$r * 2"
RateExpression == Str(<<"$", "r", " ", "*", " ", "2">>)

TierRates == {Int2Num(-1), Rat(1, 2), RateExpression}

TierLimits == {Int2Num(l) : l \in 1..MaxLimit} \cup {Null}

Tiers == [limit : TierLimits, rate : TierRates]

TieredFormula(tiers) ==
    [t |-> "object", type |-> "tiered", volumeVar |-> KeyV, tiers |-> tiers]

\* r is 3; v is the volume, or is left out
TieredContexts ==
    {<<Entry(KeyR, Int2Num(3))>>}
      \cup {<<Entry(KeyR, Int2Num(3)), Entry(KeyV, Int2Num(v))>> : v \in 0..MaxVolume}

TieredCall(tiers, context) ==
    [op |-> "evaluateTieredFormula", formula |-> TieredFormula(tiers), context |-> context]

\* the bases "100" and "$p"
MultiplierBases == {Str(<<"1", "0", "0">>), Str(<<"$", "p">>)}

MultiplierFactors == {Rat(3, 2), Int2Num(2)}

MultiplierEntries == [variable : {KeyM, KeyN}, factor : MultiplierFactors]

MultiplierFormula(base, ms) ==
    [t |-> "object", type |-> "multiplier", base |-> base, multipliers |-> ms]

Levels == {Int2Num(l) : l \in 0..MaxLevel}

\* p is 4; m and n are the levels, or are left out
MultiplierContexts ==
    {<<Entry(KeyP, Int2Num(4))>>}
      \cup {<<Entry(KeyP, Int2Num(4)), Entry(KeyM, l)>> : l \in Levels}
      \cup {<<Entry(KeyP, Int2Num(4)), Entry(KeyN, l)>> : l \in Levels}
      \cup {<<Entry(KeyP, Int2Num(4)), Entry(KeyM, l), Entry(KeyN, k)>> : l \in Levels, k \in Levels}

MultiplierCall(base, ms, context) ==
    [op |-> "evaluateMultiplierFormula", formula |-> MultiplierFormula(base, ms),
     context |-> context]

Operators == {">", ">=", "<", "<=", "==", "!=", "="}

Conditions == [variable : {KeyX}, operator : Operators, value : {Int2Num(2)}]

\* the clauses "10", 20 and "$x * 2"
ThenClauses == {Str(<<"1", "0">>), Int2Num(20), Str(<<"$", "x", " ", "*", " ", "2">>)}

\* no clause, "30" and 40
ElseClauses == {Undefined, Str(<<"3", "0">>), Int2Num(40)}

ConditionEntries == [if : Conditions, then : ThenClauses]

ConditionalFormula(cs, e) ==
    [t |-> "object", type |-> "conditional", conditions |-> cs, else |-> e]

ConditionalContexts == {<<>>} \cup {<<Entry(KeyX, Int2Num(x))>> : x \in 0..MaxX}

ConditionalCall(cs, e, context) ==
    [op |-> "evaluateConditionalFormula", formula |-> ConditionalFormula(cs, e),
     context |-> context]

InitStructured ==
    /\ \/ \E ts \in SeqsUpTo(Tiers, MaxTiers), c \in TieredContexts :
              call = TieredCall(ts, c)
       \/ \E b \in MultiplierBases, ms \in SeqsUpTo(MultiplierEntries, 2),
             c \in MultiplierContexts :
              call = MultiplierCall(b, ms, c)
       \/ \E cs \in SeqsUpTo(ConditionEntries, MaxConditions), e \in ElseClauses,
             c \in ConditionalContexts :
              call = ConditionalCall(cs, e, c)
    /\ ret = Pending
    /\ safeExpression = NoCode
    /\ formulas = <<>>
    /\ variables = <<>>
    /\ systems = <<>>
    /\ currentSystemCosts = Dict(<<>>)
    /\ NoPage

\* evaluateFormula dispatches the object to evaluateTieredFormula
EvaluateTiered ==
    /\ call.op = "evaluateTieredFormula"
    /\ ret = Pending
    /\ ret' = evaluateFormula(call.formula, call.context)
    /\ UNCHANGED <<page, call, safeExpression, engine>>

\* evaluateFormula dispatches the object to evaluateMultiplierFormula
EvaluateMultiplier ==
    /\ call.op = "evaluateMultiplierFormula"
    /\ ret = Pending
    /\ ret' = evaluateFormula(call.formula, call.context)
    /\ UNCHANGED <<page, call, safeExpression, engine>>

\* evaluateFormula dispatches the object to evaluateConditionalFormula
EvaluateConditional ==
    /\ call.op = "evaluateConditionalFormula"
    /\ ret = Pending
    /\ ret' = evaluateFormula(call.formula, call.context)
    /\ UNCHANGED <<page, call, safeExpression, engine>>

NextStructured == EvaluateTiered \/ EvaluateMultiplier \/ EvaluateConditional

SpecStructured == InitStructured /\ [][NextStructured]_vars

(***************************************************************************)
(* Support detection: getRequiredVariables and checkServiceSupport         *)
(***************************************************************************)
\* str.matchAll(/\$([a-zA-Z_][a-zA-Z0-9_]*)/g): the captured names.  A match
\* covers the sigil and word characters only, so no match hides another.
MatchedNames(s) ==
    {SubSeq(s, i + 1, i + WordRun(s, i + 1)) :
        i \in {j \in 1..(Len(s) - 1) : s[j] = "$" /\ IsNameStart(s[j + 1])}}

\* the test on varName in extractVars
IsCostVariable(varName) ==
    \/ Includes(varName, <<"_", "p", "e", "r", "_">>)
    \/ Includes(varName, <<"_", "c", "o", "s", "t">>)
    \/ Includes(varName, <<"_", "p", "r", "i", "c", "e">>)
    \/ Includes(varName, <<"_", "b", "a", "s", "e">>)

\* extractVars: the names a string adds to requiredVars
extractVars(str) == {varName \in MatchedNames(str) : IsCostVariable(varName)}

\* Object.values(obj) of a formula object, arrays and the objects in them
\* flattened.  The discriminator and the operators are strings without sigil
\* and are left out.
ObjectValues(obj) ==
    CASE obj.type = "tiered" ->
             {Str(obj.volumeVar)}
               \cup {obj.tiers[i].limit : i \in 1..Len(obj.tiers)}
               \cup {obj.tiers[i].rate : i \in 1..Len(obj.tiers)}
      [] obj.type = "multiplier" ->
             {obj.base}
               \cup {Str(obj.multipliers[i].variable) : i \in 1..Len(obj.multipliers)}
               \cup {obj.multipliers[i].factor : i \in 1..Len(obj.multipliers)}
      [] obj.type = "conditional" ->
             {Str(obj.conditions[i].if.variable) : i \in 1..Len(obj.conditions)}
               \cup {obj.conditions[i].if.value : i \in 1..Len(obj.conditions)}
               \cup {obj.conditions[i].then : i \in 1..Len(obj.conditions)}
               \cup {obj.else}
      [] OTHER -> {obj.values[i] : i \in 1..Len(obj.values)}

RECURSIVE traverse(_)
\* traverse: the names the strings of a formula add to requiredVars
traverse(obj) ==
    IF IsString(obj) THEN extractVars(obj.s)
    ELSE IF IsObject(obj) THEN UNION {traverse(v) : v \in ObjectValues(obj)}
    ELSE {}

\* the names of requiredVars (the array is used for membership only)
getRequiredVariables(serviceType) == traverse(Get(formulas, serviceType))

\* a variant that looks the names up among the variables as well
checkServiceSupportReadsVariables(serviceType, systemCosts) ==
    \A varName \in getRequiredVariables(serviceType) :
        HasKey(Assign(systemCosts, variables), varName)

\* varName in systemCosts, for every required name
checkServiceSupport(serviceType, systemCosts) ==
    \A varName \in getRequiredVariables(serviceType) : HasKey(systemCosts, varName)

Bool(b) == [t |-> "boolean", b |-> b]

(***************************************************************************)
(* Inputs of support detection: an engine with ten services, the           *)
(* components of a system, and variables set on the engine.                *)
(***************************************************************************)
KeyCost == <<"a", "_", "c", "o", "s", "t">>

KeyCost2 == <<"a", "_", "c", "o", "s", "t", "2">>

KeyPer == <<"b", "_", "p", "e", "r", "_", "g">>

KeyPrice == <<"c", "_", "p", "r", "i", "c", "e">>

KeyBase == <<"d", "_", "b", "a", "s", "e">>

Ref(key) == <<"$">> \o key

Times == <<" ", "*", " ">>

Plus == <<" ", "+", " ">>

ServiceFormulas ==
    << Entry("flat", Int2Num(5)),
       Entry("reference", Str(Ref(KeyCost))),
       Entry("expression", Str(Ref(KeyV) \o Times \o Ref(KeyPer) \o Plus \o Ref(KeyBase))),
       Entry("volume", Str(Ref(KeyV) \o Times \o <<"2">>)),
       Entry("prefixed", Str(Ref(KeyCost2) \o Plus \o <<"1">>)),
       Entry("tiered",
             TieredFormula(<< [limit |-> Int2Num(1), rate |-> Str(Ref(KeyPrice))],
                              [limit |-> Null, rate |-> Str(Ref(KeyCost) \o Times \o <<"2">>)] >>)),
       Entry("multiplier",
             MultiplierFormula(Str(Ref(KeyV) \o Times \o Ref(KeyCost)),
                               <<[variable |-> KeyM, factor |-> Rat(3, 2)]>>)),
       Entry("conditional",
             ConditionalFormula(
                 << [if |-> [variable |-> KeyX, operator |-> ">", value |-> Int2Num(2)],
                     then |-> Str(Ref(KeyPer))] >>,
                 TieredFormula(<<[limit |-> Null, rate |-> Str(Ref(KeyPrice))]>>))),
       Entry("sum",
             [t |-> "object", type |-> "none",
              values |-> <<Str(Ref(KeyCost)), Int2Num(1), Str(Ref(KeyBase))>>]) >>

\* the services asked about; "absent" has no formula
Services == Keys(ServiceFormulas) \cup {"absent"}

ComponentKeys == <<KeyCost, KeyCost2, KeyPer, KeyPrice, KeyBase>>

ComponentValues == {Int2Num(0), Null}

RECURSIVE ComponentsFrom(_)
\* the objects with keys among the i-th and later component keys, in that order
ComponentsFrom(i) ==
    IF i > Len(ComponentKeys) THEN {<<>>}
    ELSE ComponentsFrom(i + 1)
           \cup {<<Entry(ComponentKeys[i], v)>> \o c :
                    v \in ComponentValues, c \in ComponentsFrom(i + 1)}

Components == ComponentsFrom(1)

VariableNames == {KeyCost, KeyV}

VariableValues == {Int2Num(0), Int2Num(2)}

InitSupport ==
    /\ formulas = ServiceFormulas
    /\ variables = <<>>
    /\ systems = <<>>
    /\ currentSystemCosts = Dict(<<>>)
    /\ call = [op |-> "none"]
    /\ ret = Pending
    /\ safeExpression = NoCode
    /\ NoPage

\* setVariable(name, value): Map.set
SetVariable ==
    \E name \in VariableNames, value \in VariableValues :
        /\ variables' = Assign(variables, <<Entry(name, value)>>)
        /\ UNCHANGED <<page, formulas, systems, currentSystemCosts, call, ret, safeExpression>>

CheckServiceSupport ==
    \E serviceType \in Services, systemCosts \in Components :
        /\ ret = Pending
        /\ call' = [op |-> "checkServiceSupport", serviceType |-> serviceType,
                    systemCosts |-> systemCosts]
        /\ ret' = Bool(checkServiceSupport(serviceType, systemCosts))
        /\ UNCHANGED <<page, safeExpression, engine>>

NextSupport == SetVariable \/ CheckServiceSupport

SpecSupport == InitSupport /\ [][NextSupport]_vars

(***************************************************************************)
(* The cost aggregator.  The operators take the engine fields that a       *)
(* calculation reads, this.currentSystemCosts (systemCosts) and            *)
(* this.variables (store), as arguments: calculateMultiSystemCosts changes *)
(* the first between the calculations it makes.                            *)
(***************************************************************************)
\* { ...v }: null and undefined spread to nothing
Spread(v) == IF IsDict(v) THEN v.entries ELSE <<>>

\* a variant of the context in which the variables overwrite the parameters
ServiceContextVariablesLast(systemCosts, store, parameters) ==
    Assign(Assign(Spread(systemCosts), parameters), store)

\* { ...this.currentSystemCosts, ...Object.fromEntries(this.variables), ...parameters }
ServiceContext(systemCosts, store, parameters) ==
    Assign(Assign(Spread(systemCosts), store), parameters)

\* calculateServiceCost(serviceType, parameters): the cost, or Thrown when
\* the service has no formula
calculateServiceCost(systemCosts, store, serviceType, parameters) ==
    Let(Get(formulas, serviceType),
        LAMBDA formula :
            IF ~Truthy(formula) THEN Thrown
            ELSE evaluateFormula(formula, ServiceContext(systemCosts, store, parameters)))

\* checkServiceSupport(serviceType, this.currentSystemCosts) as the aggregator
\* calls it: varName in systemCosts throws a TypeError when systemCosts is no
\* object, and is not evaluated when no name is required
SupportOf(serviceType, systemCosts) ==
    IF getRequiredVariables(serviceType) = {} THEN Bool(TRUE)
    ELSE IF ~IsDict(systemCosts) THEN Thrown
    ELSE Bool(checkServiceSupport(serviceType, systemCosts.entries))

\* serviceParameters[serviceType] || {}
ParametersOf(serviceParameters, serviceType) ==
    IF HasKey(serviceParameters, serviceType) THEN Get(serviceParameters, serviceType)
    ELSE <<>>

\* costs, supportedServices, unsupportedServices and total before the loop
NoCosts ==
    [services |-> <<>>, total |-> PosZero,
     supportedServices |-> <<>>, unsupportedServices |-> <<>>]

\* the branch of the loop for a service that is not supported
Unsupported(acc, serviceType) ==
    [acc EXCEPT !.services = Append(@, Entry(serviceType, Null)),
                !.unsupportedServices = Append(@, serviceType)]

\* a variant of the try block that adds a NaN cost to the total
EvaluatedAddsNaN(acc, serviceType, serviceCost) ==
    IF serviceCost = Thrown
    THEN [acc EXCEPT !.services = Append(@, Entry(serviceType, PosZero))]
    ELSE IF ~IsNumber(serviceCost)
    THEN [acc EXCEPT !.services = Append(@, Entry(serviceType, PosZero)),
                     !.supportedServices = Append(@, serviceType)]
    ELSE [acc EXCEPT !.services = Append(@, Entry(serviceType, serviceCost)),
                     !.supportedServices = Append(@, serviceType),
                     !.total = NumAdd(@, serviceCost)]

\* a variant of the try block that lists a failed service as unsupported
EvaluatedFailureUnsupported(acc, serviceType, serviceCost) ==
    IF serviceCost = Thrown
    THEN [acc EXCEPT !.services = Append(@, Entry(serviceType, PosZero)),
                     !.unsupportedServices = Append(@, serviceType)]
    ELSE IF ~IsNumber(serviceCost)
    THEN [acc EXCEPT !.services = Append(@, Entry(serviceType, PosZero)),
                     !.supportedServices = Append(@, serviceType)]
    ELSE [acc EXCEPT !.services = Append(@, Entry(serviceType, serviceCost)),
                     !.supportedServices = Append(@, serviceType),
                     !.total = IF IsNaN(serviceCost) THEN @ ELSE NumAdd(@, serviceCost)]

\* the try block of the loop and its catch.  calculateServiceCost throws
\* before anything is recorded; serviceCost.toFixed throws for a cost that is
\* no number, after the cost is recorded and the service listed as supported,
\* and the catch overwrites the cost with 0
Evaluated(acc, serviceType, serviceCost) ==
    IF serviceCost = Thrown
    THEN [acc EXCEPT !.services = Append(@, Entry(serviceType, PosZero))]
    ELSE IF ~IsNumber(serviceCost)
    THEN [acc EXCEPT !.services = Append(@, Entry(serviceType, PosZero)),
                     !.supportedServices = Append(@, serviceType)]
    ELSE [acc EXCEPT !.services = Append(@, Entry(serviceType, serviceCost)),
                     !.supportedServices = Append(@, serviceType),
                     !.total = IF IsNaN(serviceCost) THEN @ ELSE NumAdd(@, serviceCost)]

RECURSIVE ServiceLoopEvaluatesAll(_, _, _, _, _)
\* a variant of the loop that evaluates the services that are not supported
ServiceLoopEvaluatesAll(i, acc, systemCosts, store, serviceParameters) ==
    IF i > Len(formulas) THEN acc
    ELSE Let(formulas[i].k,
             LAMBDA serviceType :
                 IF SupportOf(serviceType, systemCosts) = Thrown THEN Thrown
                 ELSE ServiceLoopEvaluatesAll(i + 1,
                          Evaluated(acc, serviceType,
                              calculateServiceCost(systemCosts, store, serviceType,
                                  ParametersOf(serviceParameters, serviceType))),
                          systemCosts, store, serviceParameters))

RECURSIVE ServiceLoop(_, _, _, _, _)
\* the loop of calculateTotalCost over Object.keys(this.formulas), from the
\* i-th key on: the costs so far, or Thrown when checkServiceSupport throws
ServiceLoop(i, acc, systemCosts, store, serviceParameters) ==
    IF i > Len(formulas) THEN acc
    ELSE Let(formulas[i].k,
             LAMBDA serviceType :
                 Let(SupportOf(serviceType, systemCosts),
                     LAMBDA supported :
                         IF supported = Thrown THEN Thrown
                         ELSE IF ~supported.b
                         THEN ServiceLoop(i + 1, Unsupported(acc, serviceType),
                                          systemCosts, store, serviceParameters)
                         ELSE ServiceLoop(i + 1,
                                  Evaluated(acc, serviceType,
                                      calculateServiceCost(systemCosts, store, serviceType,
                                          ParametersOf(serviceParameters, serviceType))),
                                  systemCosts, store, serviceParameters)))

\* the entries generateCostBreakdown pushes, percentage still 0
BreakdownItems(costs) ==
    LET kept == SelectSeq(costs, LAMBDA e : e.v # Null)
    IN  [i \in 1..Len(kept) |->
            [service |-> kept[i].k, cost |-> kept[i].v, percentage |-> PosZero]]

RECURSIVE SumCosts(_, _)
\* breakdown.reduce((sum, item) => sum + item.cost, 0)
SumCosts(items, sum) ==
    IF items = <<>> THEN sum ELSE SumCosts(Tail(items), NumAdd(sum, Head(items).cost))

\* item.percentage = total > 0 ? (item.cost / total) * 100 : 0
WithPercentages(items, total) ==
    [i \in 1..Len(items) |->
        [items[i] EXCEPT !.percentage =
            IF NumLess(PosZero, total)
            THEN NumMul(NumDiv(items[i].cost, total), Int2Num(100))
            ELSE PosZero]]

\* the comparator (a, b) => b.cost - a.cost as sort reads it: the sign of the
\* difference, and 0 for NaN
Compare(a, b) ==
    LET v == NumSub(b.cost, a.cost)
    IN  IF IsNaN(v) THEN 0
        ELSE IF NumLess(v, PosZero) THEN -1
        ELSE IF NumLess(PosZero, v) THEN 1
        ELSE 0

\* the comparator is a consistent comparator for the items
Consistent(items) ==
    \A i, j, k \in 1..Len(items) :
        /\ Compare(items[i], items[j]) = 0 /\ Compare(items[j], items[k]) = 0
              => Compare(items[i], items[k]) = 0
        /\ Compare(items[i], items[j]) < 0 /\ Compare(items[j], items[k]) < 0
              => Compare(items[i], items[k]) < 0
        /\ Compare(items[i], items[j]) > 0 /\ Compare(items[j], items[k]) > 0
              => Compare(items[i], items[k]) > 0

RECURSIVE Insert(_, _)
\* item put behind the items that do not sort after it
Insert(sorted, item) ==
    IF sorted = <<>> THEN <<item>>
    ELSE IF Compare(Head(sorted), item) <= 0 THEN <<Head(sorted)>> \o Insert(Tail(sorted), item)
    ELSE <<item>> \o sorted

RECURSIVE StableSort(_, _)
\* the order a stable sort gives with a consistent comparator
StableSort(items, sorted) ==
    IF items = <<>> THEN sorted ELSE StableSort(Tail(items), Insert(sorted, Head(items)))

\* a variant of the sort that leaves the items where they are
SortedKeepsOrder(items) == {items}

\* Array.prototype.sort with the comparator: the stable order when the
\* comparator is consistent, and otherwise an order the implementation
\* chooses
Sorted(items) ==
    IF Consistent(items) THEN {StableSort(items, <<>>)}
    ELSE {[i \in 1..Len(items) |-> items[p[i]]] : p \in Permutations(1..Len(items))}

\* generateCostBreakdown(costs): the breakdowns it can return
generateCostBreakdown(costs) ==
    Let(BreakdownItems(costs),
        LAMBDA items : Sorted(WithPercentages(items, SumCosts(items, PosZero))))

\* the object calculateTotalCost returns
Result(acc, breakdown) ==
    [t |-> "result", services |-> acc.services, total |-> acc.total,
     breakdown |-> breakdown, supportedServices |-> acc.supportedServices,
     unsupportedServices |-> acc.unsupportedServices]

\* calculateTotalCost(serviceParameters): the values it can return, Thrown
\* alone when it throws
calculateTotalCost(systemCosts, store, serviceParameters) ==
    Let(ServiceLoop(1, NoCosts, systemCosts, store, serviceParameters),
        LAMBDA acc :
            IF acc = Thrown THEN {Thrown}
            ELSE {Result(acc, breakdown) : breakdown \in generateCostBreakdown(acc.services)})

\* this.systems[systemId]?.components || {}; a system is held as its
\* components
SystemComponents(systemId) == OrElse(Get(systems, systemId), Dict(<<>>))

\* { systemId, ...result }
Tagged(systemId, result) ==
    [t |-> "result", systemId |-> systemId, services |-> result.services,
     total |-> result.total, breakdown |-> result.breakdown,
     supportedServices |-> result.supportedServices,
     unsupportedServices |-> result.unsupportedServices]

RECURSIVE SystemLoop(_, _, _)
\* the loop of calculateMultiSystemCosts over the ids that are left: the
\* arrays of results it can push (no array when a calculation throws)
SystemLoop(systemIds, store, serviceParameters) ==
    IF systemIds = <<>> THEN {<<>>}
    ELSE {<<Tagged(Head(systemIds), result)>> \o rest :
             result \in calculateTotalCost(SystemComponents(Head(systemIds)), store,
                                           serviceParameters) \ {Thrown},
             rest \in SystemLoop(Tail(systemIds), store, serviceParameters)}

\* a calculation of the loop throws
SystemLoopThrows(systemIds, store, serviceParameters) ==
    \E i \in 1..Len(systemIds) :
        Thrown \in calculateTotalCost(SystemComponents(systemIds[i]), store,
                                      serviceParameters)

Results(results) == [t |-> "results", results |-> results]

\* calculateMultiSystemCosts(systemIds, serviceParameters): the values it can
\* return, Thrown alone when it throws
calculateMultiSystemCosts(systemIds, store, serviceParameters) ==
    IF SystemLoopThrows(systemIds, store, serviceParameters) THEN {Thrown}
    ELSE {Results(results) : results \in SystemLoop(systemIds, store, serviceParameters)}

\* this.currentSystemCosts after calculateMultiSystemCosts(systemIds)
LastSystemCosts(systemIds) ==
    IF systemIds = <<>> THEN currentSystemCosts
    ELSE SystemComponents(systemIds[Len(systemIds)])

(***************************************************************************)
(* combineSystemResults of the application controller                      *)
(***************************************************************************)
RECURSIVE AddAll(_, _)
\* items.forEach(s => set.add(s)): a Set keeps the order of first insertion
AddAll(set, items) ==
    IF items = <<>> THEN set
    ELSE AddAll(IF \E i \in 1..Len(set) : set[i] = Head(items) THEN set
                ELSE Append(set, Head(items)),
                Tail(items))

RECURSIVE AddCostsKeepsNull(_, _)
\* a variant that counts the cost of a system without support as 0
AddCostsKeepsNull(combined, entries) ==
    IF entries = <<>> THEN combined
    ELSE LET service == Head(entries).k
             cost == Head(entries).v
         IN  AddCostsKeepsNull(
                 IF cost # Null /\ JsIsNaN(cost) THEN combined
                 ELSE Assign(combined,
                             <<Entry(service,
                                     NumAdd(ToNumber(OrElse(Get(combined, service), PosZero)),
                                            ToNumber(cost)))>>),
                 Tail(entries))

RECURSIVE AddCosts(_, _)
\* the inner forEach over Object.entries(result.services)
AddCosts(combined, entries) ==
    IF entries = <<>> THEN combined
    ELSE LET service == Head(entries).k
             cost == Head(entries).v
         IN  AddCosts(IF cost # Null /\ ~JsIsNaN(cost)
                      THEN Assign(combined,
                                  <<Entry(service,
                                          NumAdd(ToNumber(OrElse(Get(combined, service), PosZero)),
                                                 cost))>>)
                      ELSE combined,
                      Tail(entries))

\* combinedServices, combinedTotal and the two sets before the loop
NothingCombined ==
    [services |-> <<>>, total |-> PosZero,
     supportedServices |-> <<>>, unsupportedServices |-> <<>>]

RECURSIVE CombineLoop(_, _)
\* systemResults.forEach(result => ...)
CombineLoop(systemResults, acc) ==
    IF systemResults = <<>> THEN acc
    ELSE LET result == Head(systemResults)
         IN  CombineLoop(Tail(systemResults),
                 [services |-> AddCosts(acc.services, result.services),
                  total |-> NumAdd(acc.total, result.total),
                  supportedServices |-> AddAll(acc.supportedServices, result.supportedServices),
                  unsupportedServices |->
                      AddAll(acc.unsupportedServices, result.unsupportedServices)])

\* the entries of the combined breakdown before the sort
CombinedItems(combinedServices, combinedTotal) ==
    LET kept == SelectSeq(combinedServices, LAMBDA e : NumLess(PosZero, e.v))
    IN  [i \in 1..Len(kept) |->
            [service |-> kept[i].k, cost |-> kept[i].v,
             percentage |-> NumMul(NumDiv(kept[i].v, combinedTotal), Int2Num(100))]]

\* a variant that lists every service some system does not support
StillUnsupportedAny(acc) == acc.unsupportedServices

\* Array.from(allUnsupportedServices).filter(s => !allSupportedServices.has(s))
StillUnsupported(acc) ==
    SelectSeq(acc.unsupportedServices,
              LAMBDA service :
                  ~\E i \in 1..Len(acc.supportedServices) :
                        acc.supportedServices[i] = service)

\* the object combineSystemResults returns
Combined(acc, breakdown, systemCount) ==
    [t |-> "result", services |-> acc.services, total |-> acc.total,
     breakdown |-> breakdown, supportedServices |-> acc.supportedServices,
     unsupportedServices |-> StillUnsupported(acc),
     isMultiSystem |-> TRUE, systemCount |-> systemCount]

\* combineSystemResults(systemResults): the values it can return
combineSystemResults(systemResults) ==
    Let(CombineLoop(systemResults, NothingCombined),
        LAMBDA acc :
            {Combined(acc, breakdown, Len(systemResults)) :
                breakdown \in Sorted(CombinedItems(acc.services, acc.total))})

(***************************************************************************)
(* Inputs of the aggregator: two engines (one whose formulas give finite   *)
(* or infinite costs, one with a tier that has no rate), two systems of    *)
(* the configuration, the values passed to setSystemCosts, and the lists   *)
(* of at most MaxSystems different system ids.                             *)
(***************************************************************************)
MaxSystems == 2

PlainFormulas ==
    << Entry("flat", Int2Num(5)),
       Entry("missing", Null),
       Entry("reference", Str(Ref(KeyCost))),
       Entry("volume", Str(<<"2">> \o Times \o Ref(KeyV))),
       Entry("ratio", Str(<<"2", " ", "/", " ">> \o Ref(KeyV))),
       Entry("priced", Str(<<"2">> \o Times \o Ref(KeyPrice))) >>

RatelessFormulas ==
    << Entry("tiered", TieredFormula(<<[limit |-> Null, rate |-> Undefined]>>)),
       Entry("flat", Int2Num(5)),
       Entry("reference", Str(Ref(KeyCost))) >>

FormulaSets == {PlainFormulas, RatelessFormulas}

SystemsConfig ==
    << Entry("s1", Dict(<<Entry(KeyCost, Int2Num(3))>>)),
       Entry("s2", Dict(<<Entry(KeyCost, Int2Num(4)), Entry(KeyPrice, Int2Num(1))>>)) >>

SystemIds == {"s1", "s2", "unknown"}

SystemCostValues ==
    {SystemComponents(systemId) : systemId \in SystemIds}
      \cup {Dict(<<Entry(KeyCost, Str(<<"x">>))>>), Null}

\* the lists of at most MaxSystems different system ids (the selection of
\* the user interface)
Selections ==
    {ids \in SeqsUpTo(SystemIds, MaxSystems) :
        \A i, j \in 1..Len(ids) : i # j => ids[i] # ids[j]}

CallParameters ==
    {<<>>, <<Entry(KeyCost, Int2Num(7))>>, <<Entry(KeyV, Int2Num(1))>>}

ServiceParameters ==
    {<<>>,
     << Entry("reference", <<Entry(KeyCost, Int2Num(7))>>),
        Entry("volume", <<Entry(KeyV, Int2Num(1))>>) >>}

InitAggregate ==
    /\ formulas \in FormulaSets
    /\ variables = <<>>
    /\ systems = SystemsConfig
    /\ currentSystemCosts = Dict(<<>>)
    /\ call = [op |-> "none"]
    /\ ret = Pending
    /\ safeExpression = NoCode
    /\ NoPage

\* setSystemCosts(systemId, costs)
SetSystemCosts ==
    \E systemId \in SystemIds, costs \in SystemCostValues :
        /\ currentSystemCosts' = costs
        /\ UNCHANGED <<page, formulas, variables, systems, call, ret, safeExpression>>

\* calculateServiceCost(serviceType, parameters) runs; the call is recorded
\* with the fields of the engine it read
CalculateServiceCost ==
    \E serviceType \in Keys(formulas) \cup {"absent"}, parameters \in CallParameters :
        /\ ret = Pending
        /\ call' = [op |-> "calculateServiceCost", serviceType |-> serviceType,
                    parameters |-> parameters,
                    systemCosts |-> currentSystemCosts, store |-> variables]
        /\ ret' = calculateServiceCost(currentSystemCosts, variables, serviceType, parameters)
        /\ UNCHANGED <<page, safeExpression, engine>>

\* calculateTotalCost(serviceParameters) runs
CalculateTotalCost ==
    \E serviceParameters \in ServiceParameters :
        /\ ret = Pending
        /\ call' = [op |-> "calculateTotalCost", serviceParameters |-> serviceParameters,
                    systemCosts |-> currentSystemCosts, store |-> variables]
        /\ ret' \in calculateTotalCost(currentSystemCosts, variables, serviceParameters)
        /\ UNCHANGED <<page, safeExpression, engine>>

\* calculateMultiSystemCosts(systemIds, serviceParameters) runs; it leaves the
\* components of the last system in this.currentSystemCosts
CalculateMultiSystemCosts ==
    \E systemIds \in Selections, serviceParameters \in ServiceParameters :
        /\ ret = Pending
        /\ call' = [op |-> "calculateMultiSystemCosts", systemIds |-> systemIds,
                    serviceParameters |-> serviceParameters, store |-> variables]
        /\ ret' \in calculateMultiSystemCosts(systemIds, variables, serviceParameters)
        /\ currentSystemCosts' = LastSystemCosts(systemIds)
        /\ UNCHANGED <<page, formulas, variables, systems, safeExpression>>

\* combineSystemResults(systemResults) runs on the results that
\* calculateMultiSystemCosts returned
CombineSystemResults ==
    /\ call.op = "calculateMultiSystemCosts"
    /\ ret # Pending
    /\ ret # Thrown
    /\ call' = [op |-> "combineSystemResults", systemResults |-> ret.results]
    /\ ret' \in combineSystemResults(ret.results)
    /\ UNCHANGED <<page, safeExpression, engine>>

NextAggregate ==
    \/ SetVariable
    \/ SetSystemCosts
    \/ CalculateServiceCost
    \/ CalculateTotalCost
    \/ CalculateMultiSystemCosts
    \/ CombineSystemResults

SpecAggregate == InitAggregate /\ [][NextAggregate]_vars

(***************************************************************************)
(* Claims on the formula evaluator and the expression evaluator            *)
(***************************************************************************)
Returned(op) == call.op = op /\ ret # Pending

\* the text starts with a variable reference and goes on after it
StartsWithReference(s) ==
    /\ Len(s) > 0
    /\ s[1] = "$"
    /\ WordRun(s, 2) > 0
    /\ Len(s) > 1 + WordRun(s, 2)

\* C1: evaluateFormula on an expression string whose first token is a variable
\* reference returns the value of the whole expression, as evaluateExpression
\* computes it, not the value of one lookup.
C1_ExpressionStartingWithReference ==
    (Returned("evaluateFormula") /\ StartsWithReference(call.formula.s))
        => JsStrictEq(ret, evaluateExpression(call.formula, call.context))

\* the formula is "$" followed by the key
IsReferenceTo(s, key) == s = <<"$">> \o key

\* C2 as stated: evaluateFormula("$v", ctx) is ctx[v] when v is a key of ctx and
\* 0 when it is not.
C2_ReferenceIsContextValue ==
    \A key \in {KeyA, KeyAB} :
        (Returned("evaluateFormula") /\ IsReferenceTo(call.formula.s, key))
            => ret = (IF HasKey(call.context, key) THEN Get(call.context, key) ELSE PosZero)

\* C2 as amended: evaluateFormula("$v", ctx) is ctx[v] when v is a key of ctx
\* with a value that is neither null, undefined nor 0, and 0 when v is absent
\* or its value is null, undefined or 0.
C2_ReferenceIsTruthyContextValue ==
    \A key \in {KeyA, KeyAB} :
        (Returned("evaluateFormula") /\ IsReferenceTo(call.formula.s, key))
            => LET present == \E i \in 1..Len(call.context) :
                                  /\ call.context[i].k = key
                                  /\ call.context[i].v \notin {Null, Undefined, PosZero}
               IN  /\ present => \E i \in 1..Len(call.context) :
                                     call.context[i].k = key /\ ret = call.context[i].v
                   /\ ~present => ret = PosZero

C2_Witness ==
    /\ Returned("evaluateFormula")
    /\ IsReferenceTo(call.formula.s, KeyAB)
    /\ call.context = <<Entry(KeyA, Int2Num(0)), Entry(KeyAB, Int2Num(2))>>
    /\ ret = Int2Num(2)

\* C3: evaluateExpression returns a finite number, never NaN, +Infinity or
\* -Infinity.
C3_ExpressionResultIsFinite ==
    Returned("evaluateExpression") => (IsNumber(ret) /\ IsFinite(ret))

\* C4: the text handed to Function holds only digits, + - * / ( ) . and
\* whitespace, and the result is 0 or the value of that text alone.
C4_OnlyArithmeticCharactersEvaluated ==
    (Returned("evaluateExpression") /\ safeExpression # NoCode)
        => /\ \A i \in 1..Len(safeExpression) :
                 safeExpression[i] \in DigitSet \cup {"+", "-", "*", "/", "(", ")", ".", " "}
           /\ IsNumber(ret)
           /\ (ret = PosZero \/ JsStrictEq(ret, evaluateExpression(Str(safeExpression), <<>>)))

C4_Witness ==
    /\ Returned("evaluateExpression")
    /\ call.formula.s = <<"b", ";", "2", "$", "a">>
    /\ call.context = <<Entry(KeyA, Str(<<"x", "(", ")">>))>>
    /\ safeExpression = <<"2", "(", ")">>
    /\ ret = PosZero

\* the text holds the reference $key: the sigil, the key, and no word character
\* after it
References(s, key) == \E i \in 1..Len(s) : VarMatchesAt(s, i, key)

\* the key is unresolved in the context: absent, or present with null or
\* undefined
Unresolved(context, key) == Get(context, key) \in {Null, Undefined}

\* the contexts that bind an unresolved key to 0: in its place when it is
\* present with null, at any place of the order when it is absent
BoundToZero(context, key) ==
    IF HasKey(context, key)
    THEN {[i \in 1..Len(context) |->
              IF context[i].k = key THEN Entry(key, Int2Num(0)) ELSE context[i]]}
    ELSE {Take(context, j) \o <<Entry(key, Int2Num(0))>> \o Drop(context, j) :
              j \in 0..Len(context)}

\* the call is evaluateExpression on a text that refers to an unresolved key,
\* and the result is that of every context that binds the key to 0
SameAsBoundToZero(key) ==
    \A c \in BoundToZero(call.context, key) :
        JsStrictEq(ret, evaluateExpression(call.formula, c))

\* a variable reference of the text is directly followed by another sigil
HasAdjacentReferences(s) ==
    \E i \in 1..Len(s) :
        /\ s[i] = "$"
        /\ WordRun(s, i + 1) > 0
        /\ i + WordRun(s, i + 1) + 1 <= Len(s)
        /\ s[i + WordRun(s, i + 1) + 1] = "$"

\* C5 as stated: a reference to a variable that is no key of the context, or
\* whose value is null, evaluates as the literal 0: the result is a number and
\* is the result with the variable bound to 0.
C5_UnresolvedIsZero ==
    \A key \in {KeyA, KeyAB} :
        (/\ Returned("evaluateExpression")
         /\ References(call.formula.s, key)
         /\ Unresolved(call.context, key))
            => (IsNumber(ret) /\ SameAsBoundToZero(key))

\* C5 as amended: the same, for the texts in which no variable reference is
\* directly followed by another sigil.
C5_UnresolvedIsZeroUnlessAdjacent ==
    \A key \in {KeyA, KeyAB} :
        (/\ Returned("evaluateExpression")
         /\ References(call.formula.s, key)
         /\ Unresolved(call.context, key)
         /\ ~HasAdjacentReferences(call.formula.s))
            => (IsNumber(ret) /\ SameAsBoundToZero(key))

C5_Witness ==
    /\ Returned("evaluateExpression")
    /\ call.formula.s = <<"2", "-", "$", "a">>
    /\ call.context = <<Entry(KeyAB, Int2Num(2)), Entry(KeyA, Null)>>
    /\ ret = Int2Num(2)

(***************************************************************************)
(* Claims on the structured formulas.  What a call should return is        *)
(* written down from the inputs: the rate "$r * 2" is 6, the base "$p" is  *)
(* 4, the clause "$x * 2" is twice x.                                      *)
(***************************************************************************)
\* the rate of a tier, as a number
RateOf(rate) == IF rate = RateExpression THEN Int2Num(6) ELSE rate

RECURSIVE LimitSum(_, _)
\* limit_1 + ... + limit_k
LimitSum(tiers, k) ==
    IF k = 0 THEN PosZero ELSE NumAdd(LimitSum(tiers, k - 1), tiers[k].limit)

RECURSIVE FullTierCost(_, _)
\* limit_1 * rate_1 + ... + limit_k * rate_k
FullTierCost(tiers, k) ==
    IF k = 0 THEN PosZero
    ELSE NumAdd(FullTierCost(tiers, k - 1), NumMul(tiers[k].limit, RateOf(tiers[k].rate)))

\* the first k tiers have limits
Limited(tiers, k) == \A i \in 1..k : tiers[i].limit # Null

\* the call is a tiered one whose context gives the volume
TieredReturned ==
    Returned("evaluateTieredFormula") /\ HasKey(call.context, KeyV)

RatesNotNegative(tiers) ==
    \A i \in 1..Len(tiers) : NumLeq(PosZero, RateOf(tiers[i].rate))

\* C7: with no negative rate, the tiered cost at a volume is at most the tiered
\* cost of the same formula at every larger volume.
C7_TieredCostMonotone ==
    (TieredReturned /\ RatesNotNegative(call.formula.tiers)) =>
        \A c \in TieredContexts :
            (HasKey(c, KeyV) /\ NumLeq(Get(call.context, KeyV), Get(c, KeyV)))
                => NumLeq(ret, evaluateTieredFormula(call.formula, c))

\* tiers [1 @ "$r * 2", 2 @ 1/2, unlimited @ "$r * 2"] and volume 2: 6 + 1/2,
\* less than the cost at volume 4
C7_Witness ==
    /\ TieredReturned
    /\ call.formula.tiers = << [limit |-> Int2Num(1), rate |-> RateExpression],
                               [limit |-> Int2Num(2), rate |-> Rat(1, 2)],
                               [limit |-> Null, rate |-> RateExpression] >>
    /\ Get(call.context, KeyV) = Int2Num(2)
    /\ ret = Rat(13, 2)
    /\ NumLess(ret, evaluateTieredFormula(call.formula,
                        <<Entry(KeyR, Int2Num(3)), Entry(KeyV, Int2Num(4))>>))

\* the value of a base
BaseOf(base) == IF base = Str(<<"$", "p">>) THEN Int2Num(4) ELSE Int2Num(100)

RECURSIVE Power(_, _)
\* f multiplied k times
Power(f, k) == IF k = 0 THEN One ELSE NumMul(f, Power(f, k - 1))

\* what an entry contributes at the value n >= 1 of its variable
Contribution(entry, n) == IF n > 1 THEN Power(entry.factor, n - 1) ELSE One

RECURSIVE Contributions(_, _)
\* the product of the contributions of the entries
Contributions(multipliers, context) ==
    IF multipliers = <<>> THEN One
    ELSE NumMul(Contribution(Head(multipliers), Get(context, Head(multipliers).variable).n),
                Contributions(Tail(multipliers), context))

\* the context gives every entry's variable a value of at least 1
LevelsGiven(multipliers, context) ==
    \A i \in 1..Len(multipliers) :
        /\ HasKey(context, multipliers[i].variable)
        /\ NumLeq(One, Get(context, multipliers[i].variable))

\* C8: a multiplier formula returns its base times, for each entry, 1 at the
\* value 1 of the entry's variable and factor^(n-1) at a value n > 1.
C8_MultiplierStacking ==
    (/\ Returned("evaluateMultiplierFormula")
     /\ LevelsGiven(call.formula.multipliers, call.context))
        => NumEq(ret, NumMul(BaseOf(call.formula.base),
                             Contributions(call.formula.multipliers, call.context)))

\* base 100, factor 1.5, value 3: 225
C8_Witness ==
    /\ Returned("evaluateMultiplierFormula")
    /\ call.formula.base = Str(<<"1", "0", "0">>)
    /\ call.formula.multipliers = <<[variable |-> KeyM, factor |-> Rat(3, 2)]>>
    /\ Get(call.context, KeyM) = Int2Num(3)
    /\ ret = Int2Num(225)

\* x, 0 when the context does not give it
XOf(context) == IF HasKey(context, KeyX) THEN Get(context, KeyX).n ELSE 0

\* the comparison of a condition is satisfied
Satisfied(condition, context) ==
    LET x == XOf(context)
        value == condition.value.n
    IN  \/ condition.operator = ">" /\ x > value
        \/ condition.operator = ">=" /\ x >= value
        \/ condition.operator = "<" /\ x < value
        \/ condition.operator = "<=" /\ x <= value
        \/ condition.operator = "==" /\ x = value
        \/ condition.operator = "!=" /\ x # value

\* the value of a clause
ClauseOf(clause, context) ==
    CASE clause = Undefined -> PosZero
      [] clause = Str(<<"1", "0">>) -> Int2Num(10)
      [] clause = Str(<<"3", "0">>) -> Int2Num(30)
      [] clause = Str(<<"$", "x", " ", "*", " ", "2">>) -> Int2Num(2 * XOf(context))
      [] OTHER -> clause

\* C9: a conditional formula returns the value of the 'then' of the first
\* condition whose comparison is satisfied, and when there is none the value
\* of 'else', which is 0 when the formula has no 'else'.
C9_FirstSatisfiedConditionWins ==
    Returned("evaluateConditionalFormula") =>
        LET conditions == call.formula.conditions
            hits == {i \in 1..Len(conditions) : Satisfied(conditions[i].if, call.context)}
        IN  /\ \A i \in hits :
                   (\A j \in hits : i <= j)
                       => NumEq(ret, ClauseOf(conditions[i].then, call.context))
            /\ hits = {} => NumEq(ret, ClauseOf(call.formula.else, call.context))

\* x = 3 satisfies both x > 2 and x >= 2: the first 'then' is returned
C9_Witness ==
    /\ Returned("evaluateConditionalFormula")
    /\ call.context = <<Entry(KeyX, Int2Num(3))>>
    /\ call.formula.conditions =
           << [if |-> [variable |-> KeyX, operator |-> ">", value |-> Int2Num(2)],
               then |-> Str(<<"1", "0">>)],
              [if |-> [variable |-> KeyX, operator |-> ">=", value |-> Int2Num(2)],
               then |-> Int2Num(20)] >>
    /\ ret = Int2Num(10)

(***************************************************************************)
(* Claim on support detection.  The cost variables each service refers to  *)
(* are written down from ServiceFormulas.                                  *)
(***************************************************************************)
Referenced(serviceType) ==
    CASE serviceType = "reference" -> {KeyCost}
      [] serviceType = "expression" -> {KeyPer, KeyBase}
      [] serviceType = "prefixed" -> {KeyCost2}
      [] serviceType = "tiered" -> {KeyPrice, KeyCost}
      [] serviceType = "multiplier" -> {KeyCost}
      [] serviceType = "conditional" -> {KeyPer, KeyPrice}
      [] serviceType = "sum" -> {KeyCost, KeyBase}
      [] OTHER -> {}

\* C10: checkServiceSupport(service, components) is true exactly when every
\* cost variable the service's formula refers to is a key of components,
\* whatever the values of the components and the variables set on the engine.
C10_SupportIsKeyPresence ==
    Returned("checkServiceSupport") =>
        ret = Bool(Referenced(call.serviceType) \subseteq Keys(call.systemCosts))

\* the keys are there with null and 0, a_cost was set as a variable: supported
C10_Witness ==
    /\ Returned("checkServiceSupport")
    /\ call.serviceType = "tiered"
    /\ call.systemCosts = <<Entry(KeyCost, Int2Num(0)), Entry(KeyPrice, Null)>>
    /\ HasKey(variables, KeyCost)
    /\ ret = Bool(TRUE)

(***************************************************************************)
(* Claims on the cost aggregator                                           *)
(***************************************************************************)
\* calculateTotalCost returned a result
TotalCostReturned == Returned("calculateTotalCost") /\ ret # Thrown

Listed(list, x) == \E i \in 1..Len(list) : list[i] = x

\* the system with these components has every cost variable of the service
Supports(systemCosts, serviceType) ==
    \A varName \in getRequiredVariables(serviceType) :
        IsDict(systemCosts) /\ HasKey(systemCosts.entries, varName)

\* what the evaluation of the service gives in the recorded calculation
CostAtCall(serviceType) ==
    calculateServiceCost(call.systemCosts, call.store, serviceType,
                         ParametersOf(call.serviceParameters, serviceType))

\* what a cost adds to a total: itself when it is a number other than NaN
Counted(cost) == IF IsNumber(cost) /\ ~IsNaN(cost) THEN cost ELSE PosZero

RECURSIVE SupportedTotal(_, _)
\* the costs of the supported services from the i-th on, added to sum
SupportedTotal(i, sum) ==
    IF i > Len(formulas) THEN sum
    ELSE SupportedTotal(i + 1,
             IF Supports(call.systemCosts, formulas[i].k)
             THEN NumAdd(sum, Counted(CostAtCall(formulas[i].k)))
             ELSE sum)

\* C11: in the result of calculateTotalCost, a service the active system does
\* not support has the services entry null, is in unsupportedServices and
\* not in supportedServices, has no breakdown entry, and the total is the
\* sum over the supported services alone.
C11_UnsupportedNeverEvaluated ==
    TotalCostReturned =>
        /\ \A s \in Keys(formulas) :
              ~Supports(call.systemCosts, s) =>
                  /\ Get(ret.services, s) = Null
                  /\ Listed(ret.unsupportedServices, s)
                  /\ ~Listed(ret.supportedServices, s)
                  /\ \A i \in 1..Len(ret.breakdown) : ret.breakdown[i].service # s
        /\ ret.total = SupportedTotal(1, PosZero)

\* a calculation with a service that is not supported, a supported service
\* whose formula reads a variable the unsupported one needs too, and a total
\* that is not 0
C11_Witness ==
    /\ TotalCostReturned
    /\ \E s \in Keys(formulas) : ~Supports(call.systemCosts, s)
    /\ \E s \in Keys(formulas) :
          /\ getRequiredVariables(s) # {}
          /\ Supports(call.systemCosts, s)
    /\ NumLess(PosZero, ret.total)

\* the evaluation of the service raises an error in the recorded calculation:
\* calculateServiceCost throws, or the cost is no number and has no toFixed
Fails(serviceType) == ~IsNumber(CostAtCall(serviceType))

RECURSIVE TotalWithoutFailures(_, _)
\* the total of the engine whose formulas are the supported services that do
\* not fail, from the i-th on, added to sum
TotalWithoutFailures(i, sum) ==
    IF i > Len(formulas) THEN sum
    ELSE TotalWithoutFailures(i + 1,
             IF Supports(call.systemCosts, formulas[i].k) /\ ~Fails(formulas[i].k)
             THEN IF IsNaN(CostAtCall(formulas[i].k)) THEN sum
                  ELSE NumAdd(sum, CostAtCall(formulas[i].k))
             ELSE sum)

\* C12: in the result of calculateTotalCost, a supported service whose
\* evaluation raises an error has the cost 0 and is not in
\* unsupportedServices; every other supported service has the cost its
\* evaluation gives, and the total is the total of the services that do not
\* fail.
C12_FailureIsolated ==
    TotalCostReturned =>
        /\ \A s \in Keys(formulas) :
              Supports(call.systemCosts, s) =>
                  IF Fails(s)
                  THEN /\ Get(ret.services, s) = PosZero
                       /\ ~Listed(ret.unsupportedServices, s)
                  ELSE Get(ret.services, s) = CostAtCall(s)
        /\ ret.total = TotalWithoutFailures(1, PosZero)

\* a calculation in which a service has no formula and a service after it in
\* the formula set is evaluated to a cost that is not 0
C12_Witness ==
    /\ TotalCostReturned
    /\ \E i \in 1..Len(formulas), j \in 1..Len(formulas) :
          /\ i < j
          /\ CostAtCall(formulas[i].k) = Thrown
          /\ Supports(call.systemCosts, formulas[j].k)
          /\ ~Fails(formulas[j].k)
          /\ NumLess(PosZero, Get(ret.services, formulas[j].k))

\* C13: calculateTotalCost and calculateMultiSystemCosts never raise an error
\* to their caller, whatever the formulas, the variables, the system ids and
\* the value passed to setSystemCosts before.
C13_AggregateNeverThrows ==
    Returned("calculateTotalCost") \/ Returned("calculateMultiSystemCosts") =>
        ret # Thrown

\* C14: every cost in the breakdown that calculateTotalCost returns is a
\* finite number (not NaN, not an infinity, not a value of another type).
C14_BreakdownCostsFinite ==
    TotalCostReturned =>
        \A i \in 1..Len(ret.breakdown) :
            IsNumber(ret.breakdown[i].cost) /\ IsFinite(ret.breakdown[i].cost)

RECURSIVE SumOfNumbers(_, _, _)
\* the costs of the supportedServices from the i-th on that are not NaN,
\* added to sum
SumOfNumbers(services, supported, sum) ==
    IF supported = <<>> THEN sum
    ELSE SumOfNumbers(services, Tail(supported),
             IF IsNaN(Get(services, Head(supported))) THEN sum
             ELSE NumAdd(sum, Get(services, Head(supported))))

\* C15: the total that calculateTotalCost returns is the sum of the costs,
\* as the result reports them, of the supported services whose cost is not
\* NaN.
C15_NaNLeftOutOfTotal ==
    TotalCostReturned =>
        ret.total = SumOfNumbers(ret.services, ret.supportedServices, PosZero)

\* a result with a supported service whose cost is NaN and a total above 0
C15_Witness ==
    /\ TotalCostReturned
    /\ \E i \in 1..Len(ret.supportedServices) :
          IsNaN(Get(ret.services, ret.supportedServices[i]))
    /\ NumLess(PosZero, ret.total)

\* C16: the breakdown that calculateTotalCost returns is in descending order
\* of cost (each entry's cost >= the next entry's cost) and has exactly one
\* entry for each service whose services value is not null.
C16_BreakdownDescending ==
    TotalCostReturned =>
        /\ \A i \in 1..(Len(ret.breakdown) - 1) :
              NumLeq(ret.breakdown[i + 1].cost, ret.breakdown[i].cost)
        /\ \A j \in 1..Len(ret.services) :
              IF ret.services[j].v = Null
              THEN \A i \in 1..Len(ret.breakdown) :
                       ret.breakdown[i].service # ret.services[j].k
              ELSE Cardinality({i \in 1..Len(ret.breakdown) :
                                   ret.breakdown[i].service = ret.services[j].k}) = 1
        /\ \A i \in 1..Len(ret.breakdown) : HasKey(ret.services, ret.breakdown[i].service)

\* the keys the formulas of the aggregator read
ContextKeys == <<KeyCost, KeyV, KeyPrice>>

\* the value of key by precedence: the per-call parameter, else the variable
\* set with setVariable, else the component of the active system
Winner(key) ==
    IF HasKey(call.parameters, key) THEN Get(call.parameters, key)
    ELSE IF HasKey(call.store, key) THEN Get(call.store, key)
    ELSE Get(call.systemCosts.entries, key)

\* the key has a value in one of the three places
Bound(key) ==
    \/ HasKey(call.parameters, key)
    \/ HasKey(call.store, key)
    \/ IsDict(call.systemCosts) /\ HasKey(call.systemCosts.entries, key)

RECURSIVE WinnerContext(_)
\* the context that holds, for each bound key from the i-th on, its value by
\* precedence
WinnerContext(i) ==
    IF i > Len(ContextKeys) THEN <<>>
    ELSE IF Bound(ContextKeys[i])
    THEN <<Entry(ContextKeys[i], Winner(ContextKeys[i]))>> \o WinnerContext(i + 1)
    ELSE WinnerContext(i + 1)

ReferencedCostVariables ==
    UNION {getRequiredVariables(formulas[i].k) : i \in 1..Len(formulas)}

\* the variables without the cost variables that the system has as components
StoreBesides(components) ==
    SelectSeq(call.store,
              LAMBDA e : ~(e.k \in ReferencedCostVariables /\ HasKey(components.entries, e.k)))

\* the costs of the services computed with the system's own values for the
\* cost variables the formulas reference
OwnCosts(systemId) ==
    ServiceLoop(1, NoCosts, SystemComponents(systemId),
                StoreBesides(SystemComponents(systemId)), call.serviceParameters).services

\* calculateMultiSystemCosts returned its results
MultiSystemReturned == Returned("calculateMultiSystemCosts") /\ ret # Thrown

\* C18: calculateMultiSystemCosts(systemIds) returns one result per id, in
\* the order of systemIds and tagged with the id, and the service costs of
\* each result are computed with that system's own component values for the
\* cost variables the formulas reference, whatever was set with setVariable
\* and setSystemCosts before.
C18_EachSystemOwnComponents ==
    MultiSystemReturned =>
        /\ Len(ret.results) = Len(call.systemIds)
        /\ \A i \in 1..Len(call.systemIds) :
              /\ ret.results[i].systemId = call.systemIds[i]
              /\ ret.results[i].services = OwnCosts(call.systemIds[i])

\* combineSystemResults returned
CombineReturned == Returned("combineSystemResults")

\* the services of the per-system results
CombinedKeys ==
    UNION {Keys(call.systemResults[i].services) : i \in 1..Len(call.systemResults)}

\* the system of this result supports the service: its cost is not null
SupportedIn(result, service) ==
    HasKey(result.services, service) /\ Get(result.services, service) # Null

RECURSIVE SumOfSupporting(_, _, _)
\* the costs of the service in the results that support it, added to sum
SumOfSupporting(results, service, sum) ==
    IF results = <<>> THEN sum
    ELSE SumOfSupporting(Tail(results), service,
             IF SupportedIn(Head(results), service)
             THEN NumAdd(sum, Get(Head(results).services, service))
             ELSE sum)

RECURSIVE SumOfTotals(_, _)
SumOfTotals(results, sum) ==
    IF results = <<>> THEN sum ELSE SumOfTotals(Tail(results), NumAdd(sum, Head(results).total))

CountedIn(result, service) ==
    SupportedIn(result, service) /\ ~IsNaN(Get(result.services, service))

RECURSIVE SumOfCounted(_, _, _)
\* the costs of the service that are neither null nor NaN, added to sum
SumOfCounted(results, service, sum) ==
    IF results = <<>> THEN sum
    ELSE SumOfCounted(Tail(results), service,
             IF CountedIn(Head(results), service)
             THEN NumAdd(sum, Get(Head(results).services, service))
             ELSE sum)

BreakdownEntries(service) ==
    {i \in 1..Len(ret.breakdown) : ret.breakdown[i].service = service}

\* some system of the selection supports the service
SupportedBySome(service) ==
    \E i \in 1..Len(call.systemResults) : SupportedIn(call.systemResults[i], service)

C21_AggregatePure ==
    [][(/\ ret = Pending
        /\ ret' # Pending
        /\ call'.op \in {"calculateTotalCost", "calculateMultiSystemCosts"})
          => /\ formulas' = formulas
             /\ variables' = variables
             /\ currentSystemCosts' = currentSystemCosts]_vars

(***************************************************************************)
(* Tier limits read as cumulative volume thresholds.                       *)
(***************************************************************************)
\* the threshold below tier k: nothing below the first tier
ThresholdBelow(tiers, k) == IF k = 1 THEN PosZero ELSE tiers[k - 1].limit

\* the limits grow from tier to tier, and only the last tier may have none
Cumulative(tiers) ==
    /\ Len(tiers) >= 2
    /\ \A k \in 1..(Len(tiers) - 1) :
           /\ tiers[k].limit # Null
           /\ NumLess(ThresholdBelow(tiers, k), tiers[k].limit)
    /\ tiers[Len(tiers)].limit # Null
           => NumLess(ThresholdBelow(tiers, Len(tiers)), tiers[Len(tiers)].limit)

\* the part of the volume between the threshold below tier k and its own
VolumeBetween(tiers, k, volume) ==
    LET low == ThresholdBelow(tiers, k)
        high == tiers[k].limit
    IN  IF NumLeq(volume, low) THEN PosZero
        ELSE IF high = Null \/ NumLeq(volume, high) THEN NumSub(volume, low)
        ELSE NumSub(high, low)

RECURSIVE ThresholdCost(_, _, _)
\* the rate of each of the first k tiers on the volume between its thresholds
ThresholdCost(tiers, k, volume) ==
    IF k = 0 THEN PosZero
    ELSE NumAdd(ThresholdCost(tiers, k - 1, volume),
                NumMul(VolumeBetween(tiers, k, volume), RateOf(tiers[k].rate)))

\* C23: with limits that grow from tier to tier, each tier's rate is charged on
\* the volume between the limit of the tier before it and its own limit only
\* (with limits 1, 2 and none, the second tier is charged on at most 1 unit).
C23_LimitsAreCumulativeThresholds ==
    (TieredReturned /\ Cumulative(call.formula.tiers)) =>
        NumEq(ret, ThresholdCost(call.formula.tiers, Len(call.formula.tiers),
                                 Get(call.context, KeyV)))

\* the same number, NaN being the same as NaN
SameNumber(x, y) == NumEq(x, y) \/ (IsNaN(x) /\ IsNaN(y))

\* C24: in the result of calculateTotalCost, the percentage of each breakdown
\* entry is 100 * cost / total of the same result when the total is above 0,
\* and 0 when it is not.
C24_PercentageOfTotal ==
    TotalCostReturned =>
        \A i \in 1..Len(ret.breakdown) :
            IF NumLess(PosZero, ret.total)
            THEN SameNumber(ret.breakdown[i].percentage,
                            NumDiv(NumMul(Int2Num(100), ret.breakdown[i].cost), ret.total))
            ELSE NumEq(ret.breakdown[i].percentage, PosZero)

(***************************************************************************)
(* Context keys of which one is the start of the other: a and ab           *)
(***************************************************************************)
\* the context without the key
Without(context, key) == SelectSeq(context, LAMBDA e : e.k # key)

\* the names the text refers to: each sigil with the word characters after it
ReferencedNames(s) == {UnreplacedVars(s)[i] : i \in 1..Len(UnreplacedVars(s))}

\* C25: a reference to ab is never replaced in part by the value of the key
\* a: with no reference to a in the text, the text handed to Function and the
\* result are those of the context without a, whichever of a and ab comes
\* first in the context.
C25_PrefixKeyLeavesReference ==
    (/\ Returned("evaluateExpression")
     /\ HasKey(call.context, KeyA)
     /\ KeyA \notin ReferencedNames(call.formula.s))
        => /\ SafeExpression(call.formula.s, call.context)
                = SafeExpression(call.formula.s, Without(call.context, KeyA))
           /\ JsStrictEq(ret, evaluateExpression(call.formula, Without(call.context, KeyA)))

\* "$ab*2" with a = 0 before ab = 2: 2 * 2 is evaluated
C25_Witness ==
    /\ Returned("evaluateExpression")
    /\ call.formula.s = <<"$", "a", "b", "*", "2">>
    /\ call.context = <<Entry(KeyA, Int2Num(0)), Entry(KeyAB, Int2Num(2))>>
    /\ safeExpression = <<"2", "*", "2">>
    /\ ret = Int2Num(4)

\* C30: in the result of calculateTotalCost, each service of the formula set
\* is in exactly one of supportedServices and unsupportedServices, and its
\* entry of services is null exactly when it is in unsupportedServices.
C30_SupportPartition ==
    TotalCostReturned =>
        \A i \in 1..Len(formulas) :
            LET serviceType == formulas[i].k
            IN  /\ Listed(ret.supportedServices, serviceType)
                      # Listed(ret.unsupportedServices, serviceType)
                /\ (Get(ret.services, serviceType) = Null)
                      <=> Listed(ret.unsupportedServices, serviceType)

(***************************************************************************)
(* The application (main.js) with its configuration manager and its UI     *)
(* controller.  The configuration of the model has the services            *)
(* transport, storage and modeling, the systems s1 and s2, one base cost   *)
(* and empty multiplier groups; the page has the controls data_volume_gb   *)
(* of the tab transport and model_type of the tab modeling.                *)
(***************************************************************************)
DataVolumeGb == <<"d", "a", "t", "a", "_", "v", "o", "l", "u", "m", "e", "_", "g", "b">>

ModelType == <<"m", "o", "d", "e", "l", "_", "t", "y", "p", "e">>

Simple == <<"s", "i", "m", "p", "l", "e">>

DeepLearning == <<"d", "e", "e", "p", "_", "l", "e", "a", "r", "n", "i", "n", "g">>

BaseCost == <<"b", "_", "c", "o", "s", "t">>

VolumeMultiplier == <<"v", "o", "l", "u", "m", "e", "_", "m", "u", "l", "t", "i", "p", "l", "i", "e", "r">>

ContractMultiplier == <<"c", "o", "n", "t", "r", "a", "c", "t", "_", "m", "u", "l", "t", "i", "p", "l", "i", "e", "r">>

SupportMultiplier == <<"s", "u", "p", "p", "o", "r", "t", "_", "m", "u", "l", "t", "i", "p", "l", "i", "e", "r">>

SlaMultiplier == <<"s", "l", "a", "_", "m", "u", "l", "t", "i", "p", "l", "i", "e", "r">>

\* the formulas of the configuration: transport is "$a_cost", storage is
\* "2 * $c_price", and modeling is 10 for the model type deep_learning and 1
\* for the others
AppFormulas ==
    << Entry("transport", Str(Ref(KeyCost))),
       Entry("storage", Str(<<"2">> \o Times \o Ref(KeyPrice))),
       Entry("modeling",
             ConditionalFormula(
                 << [if |-> [variable |-> ModelType, operator |-> "==",
                             value |-> Str(DeepLearning)],
                     then |-> Int2Num(10)] >>,
                 Int2Num(1))) >>

\* getBaseCosts(): the flattened base costs
getBaseCosts == <<Entry(BaseCost, Int2Num(5))>>

\* getSystems(): the systems of the configuration, each held as its components
getSystems == SystemsConfig

\* getSystemCosts(systemId)
getSystemCosts(systemId) == Get(getSystems, systemId)

\* getDefaultVariables(serviceType)
getDefaultVariables(serviceType) ==
    CASE serviceType = "transport" -> <<Entry(DataVolumeGb, Int2Num(100))>>
      [] serviceType = "modeling" -> <<Entry(ModelType, Str(Simple))>>
      [] OTHER -> <<>>

\* getServiceVariables(serviceType): the controls of a tab (of the options
\* of model_type, the first and the last)
getServiceVariables(serviceType) ==
    CASE serviceType = "transport" ->
            <<Entry(DataVolumeGb,
                    [type |-> "range", default |-> Int2Num(100), options |-> <<>>])>>
      [] serviceType = "modeling" ->
            <<Entry(ModelType,
                    [type |-> "select", default |-> Str(Simple),
                     options |-> <<Str(Simple), Str(DeepLearning)>>])>>
      [] OTHER -> <<>>

\* the tabs of the page
Tabs == {"transport", "modeling"}

RECURSIVE SpaceRun(_, _)
\* the number of blanks of s from position i on
SpaceRun(s, i) == IF i <= Len(s) /\ IsSpace(s[i]) THEN 1 + SpaceRun(s, i + 1) ELSE 0

\* parseFloat(s): the decimal literal at the start of s, after blanks and a
\* sign, and NaN when there is none (exponents and Infinity are not read)
parseFloat(s) ==
    LET start == 1 + SpaceRun(s, 1)
        signed == start <= Len(s) /\ s[start] \in {"+", "-"}
        first == IF signed THEN start + 1 ELSE start
        whole == DigitRun(s, first)
        dot == first + whole <= Len(s) /\ s[first + whole] = "."
        frac == IF dot THEN DigitRun(s, first + whole + 1) ELSE 0
        value == Rat(DigitsValue(s, first, whole) * TenTo(frac)
                       + DigitsValue(s, first + whole + 1, frac),
                     TenTo(frac))
    IN  IF whole + frac = 0 THEN NaN
        ELSE IF signed /\ s[start] = "-" THEN NumNeg(value)
        ELSE value

\* the value a control is created with: a select shows the option that is
\* the default, or its first option
ControlValue(config, defaultValue) ==
    IF config.type = "select"
    THEN IF \E i \in 1..Len(config.options) : config.options[i] = defaultValue
         THEN ToStr(defaultValue)
         ELSE ToStr(config.options[1])
    ELSE ToStr(defaultValue)

\* updateServiceControls(serviceType): the controls of the tab with their
\* default values
updateServiceControls(serviceType) ==
    LET controls == getServiceVariables(serviceType)
        defaults == getDefaultVariables(serviceType)
    IN  [i \in 1..Len(controls) |->
            Entry(controls[i].k,
                  ControlValue(controls[i].v,
                      OrElse(OrElse(Get(defaults, controls[i].k), controls[i].v.default),
                             PosZero)))]

\* the values the user can give a control
ControlValues(name) ==
    IF name = DataVolumeGb THEN {ToStr(Int2Num(100)), ToStr(Int2Num(200))}
    ELSE {Simple, DeepLearning}

\* parseFloat(input.value) || 0
InputValue(value) == OrElse(parseFloat(value), PosZero)

\* the variables applyGlobalMultiplier sets for the four selects; the
\* multiplier groups of the configuration are empty, so each factor is 1
GlobalMultipliers ==
    << Entry(VolumeMultiplier, One), Entry(ContractMultiplier, One),
       Entry(SupportMultiplier, One), Entry(SlaMultiplier, One) >>

\* syncVariablesFromUI(): setVariable for every control and every multiplier
syncVariablesFromUI(store) ==
    Assign(Assign(store,
                  [i \in 1..Len(inputs) |-> Entry(inputs[i].k, InputValue(inputs[i].v))]),
           GlobalMultipliers)

\* loadDefaultVariables(): the defaults of the services, then the base costs
loadDefaultVariables(store) ==
    Assign(Assign(Assign(store, getDefaultVariables("transport")),
                  getDefaultVariables("modeling")),
           getBaseCosts)

RECURSIVE AllServices(_, _)
\* the services of the breakdowns, in the order of their first entry
AllServices(systemResults, seen) ==
    IF systemResults = <<>> THEN seen
    ELSE LET breakdown == Head(systemResults).breakdown
             new == SelectSeq([i \in 1..Len(breakdown) |-> breakdown[i].service],
                              LAMBDA s : ~\E j \in 1..Len(seen) : seen[j] = s)
         IN  AllServices(Tail(systemResults), seen \o new)

\* the cost of the service in the breakdown, 0 when it has no entry
CostIn(breakdown, service) ==
    IF \E i \in 1..Len(breakdown) : breakdown[i].service = service
    THEN breakdown[CHOOSE i \in 1..Len(breakdown) : breakdown[i].service = service].cost
    ELSE PosZero

\* updateComparisonChart(systemResults): one dataset per system, labelled
\* with the system, with the cost of each service
updateComparisonChart(systemResults) ==
    LET services == AllServices(systemResults, <<>>)
    IN  [labels |-> services,
         datasets |-> [i \in 1..Len(systemResults) |->
                          [label |-> systemResults[i].systemId,
                           data |-> [j \in 1..Len(services) |->
                                        CostIn(systemResults[i].breakdown, services[j])]]]]

(***************************************************************************)
(* The export: JSON.stringify writes NaN and the infinities as null, -0    *)
(* as 0, and leaves out the properties that are undefined.                 *)
(***************************************************************************)
JsonValue(v) ==
    IF IsNumber(v)
    THEN IF ~IsFinite(v) THEN Null ELSE IF IsZero(v) THEN PosZero ELSE v
    ELSE v

JsonObject(obj) ==
    LET kept == SelectSeq(obj, LAMBDA e : e.v # Undefined)
    IN  [i \in 1..Len(kept) |-> Entry(kept[i].k, JsonValue(kept[i].v))]

JsonItem(item) ==
    [item EXCEPT !.cost = JsonValue(@), !.percentage = JsonValue(@)]

JsonResult(result) ==
    [result EXCEPT
        !.services = JsonObject(@),
        !.total = JsonValue(@),
        !.breakdown = [i \in 1..Len(@) |-> JsonItem(@[i])]]

\* what the text holds of calculatedResults: null, one result or one per system
JsonResults(calculated) ==
    IF calculated = Null THEN Null
    ELSE IF calculated.t = "results"
    THEN Results([i \in 1..Len(calculated.results) |-> JsonResult(calculated.results[i])])
    ELSE JsonResult(calculated)

\* what the text holds of a formula
JsonTier(tier) == [limit |-> JsonValue(tier.limit), rate |-> JsonValue(tier.rate)]

JsonMultiplier(mult) == [mult EXCEPT !.factor = JsonValue(@)]

JsonCondition(condition) ==
    [if |-> [condition.if EXCEPT !.value = JsonValue(@)],
     then |-> JsonValue(condition.then)]

JsonFormula(formula) ==
    IF ~IsObject(formula) THEN JsonValue(formula)
    ELSE CASE formula.type = "tiered" ->
                [formula EXCEPT !.tiers = [i \in 1..Len(@) |-> JsonTier(@[i])]]
           [] formula.type = "multiplier" ->
                [formula EXCEPT !.base = JsonValue(@),
                                !.multipliers = [i \in 1..Len(@) |-> JsonMultiplier(@[i])]]
           [] formula.type = "conditional" ->
                [formula EXCEPT !.else = JsonValue(@),
                                !.conditions = [i \in 1..Len(@) |-> JsonCondition(@[i])]]
           [] OTHER -> formula

JsonFormulas(fs) ==
    LET kept == SelectSeq(fs, LAMBDA e : e.v # Undefined)
    IN  [i \in 1..Len(kept) |-> Entry(kept[i].k, JsonFormula(kept[i].v))]

\* exportConfig(): the formulas of the configuration; the base costs, the
\* multipliers and the timestamp are left out of the model, and the systems
\* are no part of what exportConfig returns
exportConfig == [formulas |-> AppFormulas]

\* exportState(): the variable store as an object, and the formulas
exportState == [variables |-> variables, formulas |-> formulas]

\* this.variables.get(name) || 0
getVariable(name) == OrElse(Get(variables, name), PosZero)

\* the serviceParameters of the export: for every service of the formulas the
\* value of each of its controls in the variable store
ExportedParameters ==
    [i \in 1..Len(formulas) |->
        Entry(formulas[i].k,
              Let(getServiceVariables(formulas[i].k),
                  LAMBDA controls :
                      [j \in 1..Len(controls) |->
                          Entry(controls[j].k, getVariable(controls[j].k))]))]

\* the results exportConfiguration calculates: none without a system,
\* calculateTotalCost() for one system, calculateMultiSystemCosts for more;
\* a failure is caught and recorded
CalculatedForExport ==
    IF selectedSystems = <<>> THEN {Null}
    ELSE Let(IF Len(selectedSystems) = 1
             THEN calculateTotalCost(currentSystemCosts, variables, <<>>)
             ELSE calculateMultiSystemCosts(selectedSystems, variables, <<>>),
             LAMBDA outcomes :
                 {IF r = Thrown THEN [t |-> "error"] ELSE r : r \in outcomes})

\* the text exportConfiguration writes, as the object JSON.parse gives back;
\* the metadata and the values of the multiplier selects are left out
ExportData(calculated) ==
    [selectedSystems |-> selectedSystems,
     serviceParameters |->
         [i \in 1..Len(ExportedParameters) |->
             Entry(ExportedParameters[i].k, JsonObject(ExportedParameters[i].v))],
     calculatedResults |-> IF calculated = [t |-> "error"] THEN calculated
                           ELSE JsonResults(calculated),
     configuration |-> [formulas |-> JsonFormulas(exportConfig.formulas)],
     currentState |-> [variables |-> JsonObject(exportState.variables),
                       formulas |-> JsonFormulas(exportState.formulas)]]

(***************************************************************************)
(* The handlers of the application.  call names the handler that ran last  *)
(* and ret is what it gave: the text of the export for exportConfiguration.*)
(***************************************************************************)
InitApp ==
    /\ formulas = <<>>
    /\ variables = <<>>
    /\ systems = <<>>
    /\ currentSystemCosts = Dict(<<>>)
    /\ call = [op |-> "none"]
    /\ ret = Pending
    /\ safeExpression = NoCode
    /\ NoPage

\* init(), run once when the document is loaded.  When the configuration
\* does not load the error is shown and nothing else is done.  Otherwise the
\* engine is built from the configuration, the UI controller selects the first
\* system, the listeners are set up, loadDefaultVariables fills the variable
\* store, sets the costs of the first system and builds the controls of the
\* current tab, and calculateCosts() is called while isInitialized is still
\* false, so that it returns at its first test; then isInitialized is set.
Init ==
    /\ call.op = "none"
    /\ ret' = Undefined
    /\ \/ /\ call' = [op |-> "init", error |-> TRUE]
          /\ UNCHANGED <<page, safeExpression, engine>>
       \/ /\ call' = [op |-> "init", error |-> FALSE]
          /\ formulas' = AppFormulas
          /\ systems' = getSystems
          /\ selectedSystems' = <<getSystems[1].k>>
          /\ variables' = loadDefaultVariables(<<>>)
          /\ currentSystemCosts' = getSystemCosts(getSystems[1].k)
          /\ inputs' = updateServiceControls(currentService)
          /\ isInitialized' = TRUE
          /\ UNCHANGED <<currentService, updatedResults, comparisonChart, safeExpression>>

\* the change listener of a system's checkbox: the system is added to the
\* selection when it is checked and taken out when it is unchecked
ToggleSystem ==
    \E systemId \in Keys(getSystems) :
        /\ isInitialized
        /\ call' = [op |-> "change"]
        /\ ret' = Undefined
        /\ selectedSystems' =
              IF Listed(selectedSystems, systemId)
              THEN SelectSeq(selectedSystems, LAMBDA id : id # systemId)
              ELSE Append(selectedSystems, systemId)
        /\ UNCHANGED <<isInitialized, currentService, inputs, updatedResults,
                       comparisonChart, safeExpression, engine>>

\* switchService(serviceType) for another tab than the current one
SwitchService ==
    \E serviceType \in Tabs :
        /\ isInitialized
        /\ currentService # serviceType
        /\ call' = [op |-> "switchService"]
        /\ ret' = Undefined
        /\ currentService' = serviceType
        /\ inputs' = updateServiceControls(serviceType)
        /\ UNCHANGED <<isInitialized, selectedSystems, updatedResults, comparisonChart,
                       safeExpression, engine>>

\* the user gives a control another value, and handleVariableChange stores
\* parseFloat(value) || 0 under the name of the control
HandleVariableChange ==
    \E i \in 1..Len(inputs) :
        \E value \in ControlValues(inputs[i].k) \ {inputs[i].v} :
            /\ isInitialized
            /\ call' = [op |-> "handleVariableChange"]
            /\ ret' = Undefined
            /\ inputs' = [inputs EXCEPT ![i] = Entry(inputs[i].k, value)]
            /\ variables' = Assign(variables, <<Entry(inputs[i].k, InputValue(value))>>)
            /\ UNCHANGED <<isInitialized, currentService, selectedSystems, updatedResults,
                           comparisonChart, safeExpression, formulas, systems,
                           currentSystemCosts>>

\* what calculateCosts shows: nothing new without a system or when the
\* calculation throws, the result of the system for one system, and for more
\* the combined result with the systems' results in the comparison chart
Shown(store) ==
    IF selectedSystems = <<>> THEN {[results |-> updatedResults, chart |-> comparisonChart]}
    ELSE IF Len(selectedSystems) = 1
    THEN {[results |-> IF r = Thrown THEN updatedResults ELSE r, chart |-> comparisonChart] :
             r \in calculateTotalCost(getSystemCosts(selectedSystems[1]), store, <<>>)}
    ELSE UNION {IF r = Thrown
                THEN {[results |-> updatedResults, chart |-> comparisonChart]}
                ELSE {[results |-> combined, chart |-> updateComparisonChart(r.results)] :
                         combined \in combineSystemResults(r.results)} :
                   r \in calculateMultiSystemCosts(selectedSystems, store, <<>>)}

\* calculateCosts(), from the button or the timer of an input: the variables
\* are synchronised from the controls, one selected system is made the
\* active one and calculated, several are calculated one after the other
CalculateCosts ==
    /\ isInitialized
    /\ call' = [op |-> "calculateCosts"]
    /\ ret' = Undefined
    /\ variables' = syncVariablesFromUI(variables)
    /\ currentSystemCosts' =
          IF selectedSystems = <<>> THEN currentSystemCosts
          ELSE IF Len(selectedSystems) = 1 THEN getSystemCosts(selectedSystems[1])
          ELSE LastSystemCosts(selectedSystems)
    /\ \E shown \in Shown(syncVariablesFromUI(variables)) :
           /\ updatedResults' = shown.results
           /\ comparisonChart' = shown.chart
    /\ UNCHANGED <<isInitialized, currentService, selectedSystems, inputs,
                   safeExpression, formulas, systems>>

\* exportConfiguration(): the results are calculated again for the export,
\* with calculateTotalCost() for one selected system and with
\* calculateMultiSystemCosts for more, and the text is written
ExportConfiguration ==
    /\ isInitialized
    /\ call' = [op |-> "exportConfiguration"]
    /\ \E calculated \in CalculatedForExport : ret' = ExportData(calculated)
    /\ currentSystemCosts' =
          IF Len(selectedSystems) > 1 THEN LastSystemCosts(selectedSystems)
          ELSE currentSystemCosts
    /\ UNCHANGED <<isInitialized, currentService, selectedSystems, inputs, updatedResults,
                   comparisonChart, safeExpression, formulas, variables, systems>>

NextApp ==
    \/ Init
    \/ ToggleSystem
    \/ SwitchService
    \/ HandleVariableChange
    \/ CalculateCosts
    \/ ExportConfiguration

SpecApp == InitApp /\ [][NextApp]_vars

(***************************************************************************)
(* Claims on the application                                               *)
(***************************************************************************)
\* the handler ran last
Handled(op) == call.op = op

\* C26: when init() has completed without error, and before any event of the
\* user, a first calculation has been made and its results have been handed
\* to updateResults.
C26_InitialCalculation ==
    (Handled("init") /\ ~call.error) => updatedResults # Undefined

\* what is shown is the result of the system
ShowsSystem(systemId) ==
    \E r \in calculateTotalCost(getSystemCosts(systemId), variables, <<>>) \ {Thrown} :
        /\ updatedResults # Undefined
        /\ updatedResults.services = r.services
        /\ updatedResults.total = r.total
        /\ updatedResults.breakdown = r.breakdown

\* C27: after calculateCosts with two or more systems selected, the main
\* results view shows the results of the first selected system, and the
\* comparison chart has one dataset for each selected system.
C27_MainViewShowsFirstSystem ==
    (Handled("calculateCosts") /\ Len(selectedSystems) >= 2) =>
        /\ ShowsSystem(selectedSystems[1])
        /\ comparisonChart # Undefined
        /\ [i \in 1..Len(comparisonChart.datasets) |-> comparisonChart.datasets[i].label]
              = selectedSystems

\* the page has the control and it shows the value
ControlShows(name, value) ==
    \E i \in 1..Len(inputs) : inputs[i].k = name /\ inputs[i].v = value

\* C28: after handleVariableChange and after the synchronisation that starts
\* calculateCosts, the variable store holds under model_type the text of the
\* option the selector shows, and a calculation for one system with the
\* option deep_learning shows the cost 10 of the condition
\* model_type == "deep_learning".
C28_SelectorHoldsOptionText ==
    \A value \in ControlValues(ModelType) :
        (/\ Handled("handleVariableChange") \/ Handled("calculateCosts")
         /\ ControlShows(ModelType, value))
            => /\ Get(variables, ModelType) = Str(value)
               /\ (/\ Handled("calculateCosts")
                   /\ Len(selectedSystems) = 1
                   /\ value = DeepLearning)
                      => Get(updatedResults.services, "modeling") = Int2Num(10)

\* what the results of the selected systems are in the text of an export,
\* each system calculated with its own components
ResultsOfSelection(systemIds) ==
    IF systemIds = <<>> THEN {Null}
    ELSE IF Len(systemIds) = 1
    THEN {JsonResults(r) :
             r \in calculateTotalCost(getSystemCosts(systemIds[1]), variables, <<>>) \ {Thrown}}
    ELSE {JsonResults(r) :
             r \in calculateMultiSystemCosts(systemIds, variables, <<>>) \ {Thrown}}

\* C29: the calculatedResults of an export are the results of the systems
\* listed in selectedSystems of the same export, each calculated with its own
\* components, whatever selections, calculations and exports came before.
C29_ExportedResultsOfSelection ==
    Handled("exportConfiguration") =>
        ret.calculatedResults \in ResultsOfSelection(ret.selectedSystems)

\* the results of calculateTotalCost() on an engine built from the text of
\* the export: its formulas are those of the exported configuration (the
\* ones of the exporting engine, as the claim requires first), its variable
\* store is the exported one, and it has no systems and no active system
\* components, for the text holds none
RebuiltTotalCost(exported) ==
    calculateTotalCost(Dict(<<>>), exported.currentState.variables, <<>>)

\* C22: an engine rebuilt from the exported configuration and the exported
\* variable state gives for calculateTotalCost() the results of the engine
\* that was exported.
C22_ExportRoundTrip ==
    Handled("exportConfiguration") =>
        /\ ret.configuration.formulas = formulas
        /\ ret.currentState.formulas = formulas
        /\ RebuiltTotalCost(ret) = calculateTotalCost(currentSystemCosts, variables, <<>>)

====
